---- MODULE Spec2Model ----
(***************************************************************************)
(* A model of the stockpicker package of WuyaoDj/a-stock-picker:           *)
(*   - CacheManager (src/stockpicker/cache.py): the two-tier cache, run    *)
(*     sequentially against a clock                  (specification Spec), *)
(*   - CacheManager.set run by several fetch workers at once, statement by *)
(*     statement                                  (specification SpecSet), *)
(*   - Screener.screen (src/stockpicker/screener/engine.py): the staged    *)
(*     pipeline with its thread pool           (specification SpecScreen), *)
(*   - its cheap filter over a wider range of quotes          (SpecFilter),*)
(*   - its sort and return for more than ten survivors          (SpecRank),*)
(*   - the quote provider and the report provider with the growth check,   *)
(*     each with its cache, called for one symbol          (SpecProviders),*)
(*   - TencentDataSource.get_realtime_data (src/stockpicker/data/          *)
(*     tencent.py) for up to MaxRequested symbols: the cache lookups, the  *)
(*     batches of 100 and the merge of their answers       (SpecRealtime), *)
(*   - the cache keys and files of the two providers, each with its own    *)
(*     CacheManager                                            (SpecKeys), *)
(*   - get, set, get_stats and a restart of CacheManager, and the same of  *)
(*     StockCache (src/stock_screener_workflow.py)             (SpecStats),*)
(*   - StockCache.clear_expired over entries of different ages (SpecClear),*)
(*   - one call of get_realtime_data and of get_financial_data             *)
(*     (src/stockpicker/data/eastmoney.py), each going on to its end       *)
(*                                                             (SpecCalls),*)
(*   - the two calls run after run, with hours and restarts between the    *)
(*     runs                                                     (SpecRuns).*)
(* In SpecKeys memory_cache, meta, meta_file and written hold one dict per *)
(* manager, and files and subdirs hold paths.                              *)
(* Times are in hours.                                                     *)
(***************************************************************************)
EXTENDS Integers, Sequences, FiniteSets, TLC

VARIABLES
    \* ---- CacheManager (cache.py) ----
    now,            \* datetime.now(), in hours
    memory_cache,   \* self._memory_cache: key -> CacheItem
    files,          \* the payload files <cache_dir>/<prefix>/<key>.json: key -> data
    meta,           \* self.meta: key -> {'time', 'size'}
    meta_file,      \* cache_meta.json on disk
    subdirs,        \* the directories <cache_dir>/<prefix> that exist
    written,        \* history: per key the last set (data, time, ttl) and whether
                    \* it replaced a different payload of the same ttl
    \* ---- set, statement by statement, in the fetch workers ----
    wpc,            \* worker -> the statement of get_financial_data/set it is at
    wseen,          \* worker -> the size of self.meta when its json.dump began
    wbuf,           \* worker -> the text its open file object holds unflushed
    \* ---- Screener.screen (engine.py) ----
    spc,            \* the statement the main thread of screen is at
    params,         \* the arguments of screen
    stocks,         \* the stock list
    data_map,       \* symbol -> quote, from get_realtime_data
    candidates,     \* the list the cheap filter builds
    tech_count,
    futures,        \* per candidate submitted: "queued", "running" or "finished"
    results,        \* per finished future: what _check_single_stock returned
                    \* or raised
    collected,      \* the futures as_completed has yielded
    final_candidates,
    fetch_log,      \* symbol -> the number of report fetches asked for it
    stats,          \* self.stats
    returned,       \* what screen returned
    reported,       \* what screen handed to ReportGenerator.generate_report
    \* ---- TencentDataSource.get_realtime_data (tencent.py) ----
    rpc,            \* the statement get_realtime_data is at
    to_fetch,       \* the symbols that were not found cached
    rt_results,     \* results: symbol -> quote
    requests,       \* history: the code lists sent upstream, one per _fetch_batch
    answers,        \* history: what each _fetch_batch returned
    \* ---- StockCache (stock_screener_workflow.py) ----
    sc_files,       \* the payload files <cache_dir>/<key>.json: key -> data
    sc_meta,        \* self.meta: key -> {'time', 'size'}
    sc_meta_file,   \* its cache_meta.json on disk
    ret,            \* what the last call of a cache method returned
    \* ---- EastMoneyDataSource.get_financial_data (eastmoney.py), run after run ----
    fpc,            \* the statement get_financial_data is at
    fin_sent,       \* history: the upstream calls this call of it has made
    fin_ret,        \* what it returned
    calls           \* history: the earlier runs, with what the providers
                    \* returned and sent in them

cacheVars == <<now, memory_cache, files, meta, meta_file, subdirs, written>>
setVars == <<wpc, wseen, wbuf>>
screenVars == <<spc, params, stocks, data_map, candidates, tech_count, futures,
                results, collected, final_candidates, fetch_log, stats, returned,
                reported>>
rtVars == <<rpc, to_fetch, rt_results, requests, answers>>
stockCacheVars == <<sc_files, sc_meta, sc_meta_file>>
runVars == <<fpc, fin_sent, fin_ret, calls>>
otherVars == <<rtVars, stockCacheVars, ret, runVars>>
vars == <<cacheVars, setVars, screenVars, otherVars>>

----------------------------------------------------------------------------
(* Bounds of the model *)

\* the clock is read at the instants b, b+1 .. b+MaxOffset around every
\* expiry boundary b
MaxOffset == 1

\* the fetch workers that run set at once
NumWorkers == 2

\* the size of the stock list
NumSymbols == 3

\* the largest max_workers screen is called with
MaxWorkers == 2

\* the most rows the report provider answers with
MaxRows == 4

\* the size of the stock list in the runs that are followed from the end of
\* the thread pool on (more than TopN candidates reach the sort)
MaxRanked == 12

\* the longest symbol list get_realtime_data is called with
MaxRequested == 201

\* the runs of the providers that follow one another
MaxRuns == 2

(* Program constants *)
TopN == 10
DefaultMaxPe == 100
DefaultPriceRatio == 2
DefaultGrowthMin == 30
DefaultGrowthMax == 100
DefaultExpireHours == 24
DiskExpireHours == 24
QuoteExpireHours == 1
ReportExpireHours == 168
BatchSize == 100
StockCacheExpireHours == 24

None == "None"

\* cache keys: the quote key and the report key of one identifier
Keys == {"rt_600000", "fin_600000"}
\* payloads, as the text json.dump writes for them
Payloads == {"{p1}", "{p_2}"}
\* the expire_hours the callers pass, and 0
ExpireHours == {0, QuoteExpireHours, DefaultExpireHours, ReportExpireHours}
\* the instants at which the program runs
Instants ==
    {b + o : b \in {0, QuoteExpireHours, DiskExpireHours, ReportExpireHours},
             o \in 0..MaxOffset}

----------------------------------------------------------------------------
(* Python dicts *)

EmptyDict == [k \in {} |-> None]
DictSet(d, key, v) == [k \in DOMAIN d \cup {key} |-> IF k = key THEN v ELSE d[k]]
DictDel(d, key) == [k \in DOMAIN d \ {key} |-> d[k]]

----------------------------------------------------------------------------
(* CacheItem *)

CacheItem(data, timestamp, expire_hours) ==
    [data |-> data, timestamp |-> timestamp, expire_hours |-> expire_hours]

is_expired(item) == now - item.timestamp > item.expire_hours

----------------------------------------------------------------------------
(* cache_meta.json: absent, or a text that is the dump of an index (ok) or  *)
(* not (a truncated or overwritten text); n is its length in entries.      *)

NoFile == [exists |-> FALSE, ok |-> FALSE, idx |-> EmptyDict, n |-> 0]
DumpOf(d) == [exists |-> TRUE, ok |-> TRUE, idx |-> d, n |-> Cardinality(DOMAIN d)]

\* _load_meta: json.load of the file, or {} when there is none
LoadMeta(f) == IF f.exists THEN f.idx ELSE EmptyDict

MetaEntry(data) == [time |-> now, size |-> Len(data)]

----------------------------------------------------------------------------
(* CacheManager.get *)

\* the memory tier after the first half of get: an expired item is dropped
GetMemoryChecked(key) ==
    IF key \in DOMAIN memory_cache /\ is_expired(memory_cache[key])
    THEN DictDel(memory_cache, key)
    ELSE memory_cache

GetMemoryHit(key) ==
    key \in DOMAIN memory_cache /\ ~is_expired(memory_cache[key])

\* the disk tier answers: the file and the index entry exist, and the entry is
\* no older than 24 hours
GetDiskHit(key) ==
    /\ key \in DOMAIN files
    /\ key \in DOMAIN meta
    /\ now - meta[key].time <= DiskExpireHours

\* what get(key) returns
GetResult(key) ==
    IF GetMemoryHit(key) THEN memory_cache[key].data
    ELSE IF GetDiskHit(key) THEN files[key]
    ELSE None

\* self._memory_cache after get(key)
GetMemory(key) ==
    IF GetMemoryHit(key) THEN memory_cache
    ELSE IF GetDiskHit(key)
         THEN DictSet(GetMemoryChecked(key), key,
                      CacheItem(files[key], meta[key].time, DefaultExpireHours))
         ELSE GetMemoryChecked(key)

\* line 41-45: _get_file_path(key) makes the directory of the prefix of the
\* key when it does not exist
Prefix(key) == IF Len(key) >= 3 THEN SubSeq(key, 1, 3) ELSE key
GetFilePath(key) == subdirs \cup {Prefix(key)}

\* the directories after get(key): line 56 is reached unless the memory tier
\* has answered
GetSubdirs(key) == IF GetMemoryHit(key) THEN subdirs ELSE GetFilePath(key)

Get(key) ==
    /\ memory_cache' = GetMemory(key)
    /\ subdirs' = GetSubdirs(key)
    /\ UNCHANGED <<now, files, meta, meta_file, written>>

----------------------------------------------------------------------------
(* CacheManager.set *)

SetMemory(key, data, expire_hours) ==
    DictSet(memory_cache, key, CacheItem(data, now, expire_hours))

SetFiles(key, data) == DictSet(files, key, data)

SetMeta(key, data) == DictSet(meta, key, MetaEntry(data))

\* _save_meta, alone: open(.., 'w'), json.dump, close
SaveMeta(m) == DumpOf(m)

\* history of the calls of set
Record(key, data, expire_hours) ==
    DictSet(written, key,
            [data |-> data, time |-> now, ttl |-> expire_hours,
             over |-> key \in DOMAIN written
                      /\ written[key].data # data
                      /\ written[key].ttl = expire_hours])

Set(key, data, expire_hours) ==
    /\ memory_cache' = SetMemory(key, data, expire_hours)
    /\ files' = SetFiles(key, data)
    /\ meta' = SetMeta(key, data)
    /\ meta_file' = SaveMeta(SetMeta(key, data))
    /\ subdirs' = GetFilePath(key)
    /\ written' = Record(key, data, expire_hours)
    /\ UNCHANGED now

----------------------------------------------------------------------------
(* A new CacheManager on the same directory (the process exited): __init__ *)

Restart ==
    /\ memory_cache' = EmptyDict
    /\ meta' = LoadMeta(meta_file)
    /\ UNCHANGED <<now, files, meta_file, subdirs, written>>

(* Time passes *)
Tick ==
    /\ \E t \in Instants : t > now /\ now' = t
    /\ UNCHANGED <<memory_cache, files, meta, meta_file, subdirs, written>>

----------------------------------------------------------------------------
CacheInit ==
    /\ now = 0
    /\ memory_cache = EmptyDict
    /\ files = EmptyDict
    /\ meta_file = NoFile
    /\ meta = LoadMeta(NoFile)
    /\ subdirs = {}
    /\ written = EmptyDict

Workers == 1..NumWorkers

SetIdle ==
    /\ wpc = [w \in Workers |-> "idle"]
    /\ wseen = [w \in Workers |-> 0]
    /\ wbuf = [w \in Workers |-> NoFile]

\* generate_report was not called
NoReport == [none |-> TRUE]

\* no call of screen is running
ScreenIdle ==
    /\ spc = "idle"
    /\ params = [max_workers |-> 0]
    /\ stocks = <<>>
    /\ data_map = EmptyDict
    /\ candidates = <<>>
    /\ tech_count = 0
    /\ futures = <<>>
    /\ results = <<>>
    /\ collected = {}
    /\ final_candidates = <<>>
    /\ fetch_log = EmptyDict
    /\ stats = EmptyDict
    /\ returned = <<>>
    /\ reported = NoReport

\* no call of get_realtime_data is running
RealtimeIdle ==
    /\ rpc = "idle"
    /\ to_fetch = <<>>
    /\ rt_results = EmptyDict
    /\ requests = <<>>
    /\ answers = <<>>

\* a StockCache on an empty directory
StockCacheInit ==
    /\ sc_files = EmptyDict
    /\ sc_meta_file = NoFile
    /\ sc_meta = LoadMeta(NoFile)

\* no cache method was called
NoCall == [method |-> "none"]

\* no call of get_financial_data is running, and there was no earlier run
RunIdle ==
    /\ fpc = "idle"
    /\ fin_sent = 0
    /\ fin_ret = NoCall
    /\ calls = <<>>

OtherIdle == RealtimeIdle /\ StockCacheInit /\ ret = NoCall /\ RunIdle

Init == CacheInit /\ SetIdle /\ ScreenIdle /\ OtherIdle

Next ==
    \/ \E key \in Keys : Get(key) /\ UNCHANGED <<setVars, otherVars, screenVars>>
    \/ \E key \in Keys, data \in Payloads, expire_hours \in ExpireHours :
          Set(key, data, expire_hours) /\ UNCHANGED <<setVars, otherVars, screenVars>>
    \/ Restart /\ UNCHANGED <<setVars, otherVars, screenVars>>
    \/ Tick /\ UNCHANGED <<setVars, otherVars, screenVars>>

Spec == Init /\ [][Next]_vars

----------------------------------------------------------------------------
(* EastMoneyDataSource.get_financial_data in the workers of the thread pool *)
(* of Screener.screen, one symbol each, CacheManager.set and _save_meta    *)
(* statement by statement. The interpreter switches threads between        *)
(* statements; no statement of set takes a lock.                           *)

\* the cache key of the symbol worker w was submitted with
cache_key(w) == "fin_" \o ToString(600000 + w)

\* the report the upstream sends for a symbol, as json.dump writes it
ReportOf(w) == "{reports" \o ToString(w) \o "}"

\* a text that is no dump of an index, n entries long
Garbage(n) == [exists |-> TRUE, ok |-> FALSE, idx |-> EmptyDict, n |-> n]

\* open(self.meta_file, 'w') truncates the file
Truncated == Garbage(0)

\* the file after the text buf is written from its start, without truncation:
\* a shorter text leaves the tail of the longer one behind it
WriteOver(file, buf) ==
    IF buf.n >= file.n THEN buf ELSE Garbage(file.n)

Goto(w, pc) == wpc' = [wpc EXCEPT ![w] = pc]

\* line 35-37: cached = self.cache.get(cache_key); if cached: return cached
WGet(w) ==
    /\ wpc[w] = "idle"
    /\ memory_cache' = GetMemory(cache_key(w))
    /\ subdirs' = GetSubdirs(cache_key(w))
    /\ Goto(w, IF GetResult(cache_key(w)) # None THEN "returned" ELSE "fetch")
    /\ UNCHANGED <<now, files, meta, meta_file, written, wseen, wbuf, screenVars, otherVars>>

\* line 58-62, 90-93: the upstream call; no data or an error returns None
WFetch(w) ==
    /\ wpc[w] = "fetch"
    /\ \E ok \in BOOLEAN : Goto(w, IF ok THEN "set_memory" ELSE "returned_none")
    /\ UNCHANGED <<cacheVars, wseen, wbuf, screenVars, otherVars>>

\* cache.py line 68-69
WSetMemory(w) ==
    /\ wpc[w] = "set_memory"
    /\ memory_cache' = SetMemory(cache_key(w), ReportOf(w), ReportExpireHours)
    /\ written' = Record(cache_key(w), ReportOf(w), ReportExpireHours)
    /\ Goto(w, "set_file")
    /\ UNCHANGED <<now, files, meta, meta_file, subdirs, wseen, wbuf, screenVars, otherVars>>

\* cache.py line 71-73
WSetFile(w) ==
    /\ wpc[w] = "set_file"
    /\ files' = SetFiles(cache_key(w), ReportOf(w))
    /\ subdirs' = GetFilePath(cache_key(w))
    /\ Goto(w, "set_meta")
    /\ UNCHANGED <<now, memory_cache, meta, meta_file, written, wseen, wbuf, screenVars, otherVars>>

\* cache.py line 75
WSetMeta(w) ==
    /\ wpc[w] = "set_meta"
    /\ meta' = SetMeta(cache_key(w), ReportOf(w))
    /\ Goto(w, "save_open")
    /\ UNCHANGED <<now, memory_cache, files, meta_file, subdirs, written, wseen, wbuf,
                   screenVars, otherVars>>

\* cache.py line 38: open(self.meta_file, 'w')
WSaveOpen(w) ==
    /\ wpc[w] = "save_open"
    /\ meta_file' = Truncated
    /\ Goto(w, "dump")
    /\ UNCHANGED <<now, memory_cache, files, meta, subdirs, written, wseen, wbuf,
                   screenVars, otherVars>>

\* cache.py line 39: json.dump begins to iterate self.meta
WDumpBegin(w) ==
    /\ wpc[w] = "dump"
    /\ wseen' = [wseen EXCEPT ![w] = Cardinality(DOMAIN meta)]
    /\ Goto(w, "dumping")
    /\ UNCHANGED <<cacheVars, wbuf, screenVars, otherVars>>

\* cache.py line 39: the iteration ends. If self.meta grew meanwhile the
\* iterator raises RuntimeError (dictionary changed size during iteration):
\* the with statement closes the file with the text written so far, and the
\* except clause of get_financial_data (line 91) returns None.
WDumpEnd(w) ==
    /\ wpc[w] = "dumping"
    /\ IF Cardinality(DOMAIN meta) = wseen[w]
       THEN /\ wbuf' = [wbuf EXCEPT ![w] = DumpOf(meta)]
            /\ Goto(w, "close")
            /\ UNCHANGED meta_file
       ELSE /\ \E n \in 0..wseen[w] : meta_file' = WriteOver(meta_file, Garbage(n))
            /\ Goto(w, "failed")
            /\ UNCHANGED wbuf
    /\ UNCHANGED <<now, memory_cache, files, meta, subdirs, written, wseen, screenVars,
                   otherVars>>

\* cache.py line 38-39: leaving the with statement flushes the text and closes
WSaveClose(w) ==
    /\ wpc[w] = "close"
    /\ meta_file' = WriteOver(meta_file, wbuf[w])
    /\ wbuf' = [wbuf EXCEPT ![w] = NoFile]
    /\ Goto(w, "returned")
    /\ UNCHANGED <<now, memory_cache, files, meta, subdirs, written, wseen, screenVars,
                   otherVars>>

SetInit == CacheInit /\ SetIdle /\ ScreenIdle /\ OtherIdle

SetNext ==
    \E w \in Workers :
        \/ WGet(w)
        \/ WFetch(w)
        \/ WSetMemory(w)
        \/ WSetFile(w)
        \/ WSetMeta(w)
        \/ WSaveOpen(w)
        \/ WDumpBegin(w)
        \/ WDumpEnd(w)
        \/ WSaveClose(w)

SpecSet == SetInit /\ [][SetNext]_vars

----------------------------------------------------------------------------
(* TencentDataSource: the stock list, the quotes, the category test *)

\* get_stock_list builds f"600{i:03d}": "600000", "600001", ...; the stock list
\* of the model is its first NumSymbols symbols
Symbol(i) ==
    "600" \o (IF i - 1 < 10 THEN "00" ELSE IF i - 1 < 100 THEN "0" ELSE "")
          \o ToString(i - 1)
StockList == [i \in 1..NumSymbols |-> Symbol(i)]
\* the place of a symbol in the stock list; the symbols ascend with it
SymbolIndex(symbol) == CHOOSE i \in 1..NumSymbols : Symbol(i) = symbol
\* the same for every symbol "600000" .. "600999": int(symbol) - 599999
DigitOf ==
    [c \in {"0", "1", "2", "3", "4", "5", "6", "7", "8", "9"} |->
        CHOOSE d \in 0..9 : ToString(d) = c]
SymbolIndexOf(symbol) ==
    100 * DigitOf[SubSeq(symbol, 4, 4)] + 10 * DigitOf[SubSeq(symbol, 5, 5)]
        + DigitOf[SubSeq(symbol, 6, 6)] + 1

\* two of the TECH_KEYWORDS (the others are not ASCII)
TECH_KEYWORDS == {"AI", "5G"}

\* kw in name
Contains(name, kw) ==
    \E i \in 1..(Len(name) - Len(kw) + 1) : SubSeq(name, i, i + Len(kw) - 1) = kw

is_tech_stock(name) ==
    IF name = "" THEN FALSE ELSE \E kw \in TECH_KEYWORDS : Contains(name, kw)

Quote(name, price, pe, week_52_low) ==
    [name |-> name, price |-> price, pe |-> pe, week_52_low |-> week_52_low]

\* what the upstream may answer for a symbol (_fetch_batch); NoQuote: nothing
NoQuote == [name |-> "", price |-> 0, pe |-> 0, week_52_low |-> 0]
UpstreamQuotes ==
    { Quote("xAI", 10, 8, 6),       \* passes: 10 < 6 * 2
      Quote("5Gy", 10, 12, 6),      \* passes, a higher pe
      Quote("xAI", 10, 8, 4),       \* price 10 >= 4 * 2
      Quote("xAI", 12, 8, 6),       \* price 12 >= 6 * 2
      Quote("xAI", 10, 0, 6),       \* no pe
      Quote("xAI", 10, 101, 6),     \* pe above max_pe
      Quote("bank", 10, 8, 6),      \* no keyword in the name
      Quote("xAI", 0, 8, 6),        \* no price
      NoQuote }

\* get_realtime_data, line 64: only a quote with a name and a price > 0 is
\* cached and returned
ValidQuote(data) == data.name # "" /\ data.price > 0

RealtimeData(upstream) ==
    [symbol \in {x \in DOMAIN upstream : ValidQuote(upstream[x])} |-> upstream[symbol]]

----------------------------------------------------------------------------
(* EastMoneyDataSource: the report of a symbol and the growth test *)

\* the value of a growth field of the upstream answer: a number, JSON null, or
\* a text where a number belongs
Num(n) == [num |-> n]
Null == [null |-> TRUE]
Text(t) == [text |-> t]
IsNum(v) == "num" \in DOMAIN v

\* line 118-119: (v or 0): None and 0 give 0, everything else is itself
OrZero(v) == IF v = Null THEN Num(0) ELSE v

\* line 69-75: an annual report; year is REPORT_DATE[:4]
Report(year, revenue_growth, profit_growth) ==
    [year |-> year, revenue_growth |-> revenue_growth, profit_growth |-> profit_growth]

\* a row of data['result']['data']: DATATYPE, REPORT_DATE, YSTZ, JLRTBZCL
Row(datatype, year, ystz, jlrtbzcl) ==
    [DATATYPE |-> datatype, REPORT_DATE |-> year, YSTZ |-> ystz, JLRTBZCL |-> jlrtbzcl]

\* line 66-75: the rows whose DATATYPE names an annual report ("annual" stands
\* for the two characters the code looks for), in the order of the answer
RECURSIVE AnnualReports(_)
AnnualReports(rows) ==
    IF rows = <<>> THEN <<>>
    ELSE LET r == rows[Len(rows)]
             rest == AnnualReports(SubSeq(rows, 1, Len(rows) - 1))
         IN IF Contains(r.DATATYPE, "annual")
            THEN Append(rest, Report(r.REPORT_DATE, r.YSTZ, r.JLRTBZCL))
            ELSE rest

\* line 78-84: the result for a symbol whose answer holds the annual reports
\* `reports`
FinancialData(symbol, reports) ==
    [symbol |-> symbol,
     reports |-> SubSeq(reports, 1, IF Len(reports) < 3 THEN Len(reports) ELSE 3),
     has_3years |-> Len(reports) >= 3]

\* the annual reports the upstream may hold for a symbol in a run of screen;
\* no two symbols have the same growths
UpstreamReports(symbol) ==
    { << Report(2023, Num(30 + 3 * (SymbolIndexOf(symbol) - 1)), Num(100)),
         Report(2022, Num(60), Num(40)),
         Report(2021, Num(90), Num(40)) >>,               \* averages 60 + i, 60
      << Report(2023, Text("--"), Num(50)), Report(2022, Num(50), Num(50)),
         Report(2021, Num(50), Num(50)) >> }                   \* a growth that is no number

\* get_financial_data returned None
NoFinancialData == [none |-> TRUE]

\* the answer of the upstream: none (the request or response.json() raised),
\* or the 'success' flag and the rows of result.data
Failed == [failed |-> TRUE]
Response(success, rows) == [success |-> success, rows |-> rows]

\* line 58-93 on a cache miss: None unless the answer is a success with rows
get_financial_data(symbol, response) ==
    IF response = Failed THEN NoFinancialData
    ELSE IF response.success /\ response.rows # <<>>
         THEN FinancialData(symbol, AnnualReports(response.rows))
         ELSE NoFinancialData

\* what get_financial_data may return for a symbol: None, or the result
FinancialResults(symbol) ==
    {NoFinancialData} \cup {FinancialData(symbol, reports) : reports \in UpstreamReports(symbol)}

\* line 118-119: sum(...) over the first three reports raises TypeError when a
\* growth is a text
GrowthRaises(reports) ==
    \E k \in 1..3 : \/ ~IsNum(OrZero(reports[k].revenue_growth))
                    \/ ~IsNum(OrZero(reports[k].profit_growth))

\* three times the average of a growth field over the first three reports
SumRevenueGrowth(reports) ==
    OrZero(reports[1].revenue_growth).num + OrZero(reports[2].revenue_growth).num
        + OrZero(reports[3].revenue_growth).num
SumProfitGrowth(reports) ==
    OrZero(reports[1].profit_growth).num + OrZero(reports[2].profit_growth).num
        + OrZero(reports[3].profit_growth).num

\* min_growth < sum / 3 < max_growth
AverageInRangeOpen(sum, min_growth, max_growth) ==
    3 * min_growth < sum /\ sum < 3 * max_growth
\* min_growth <= sum / 3 <= max_growth
AverageInRange(sum, min_growth, max_growth) ==
    3 * min_growth <= sum /\ sum <= 3 * max_growth

\* an exception left the call
Raised == [raised |-> TRUE]

\* check_growth_condition with use_average: (is_valid, msg, financial_data),
\* or the TypeError of line 118-119; the averages it stores in financial_data
\* are kept as their sums
check_growth_condition(financial_data, min_growth, max_growth) ==
    IF financial_data = NoFinancialData
    THEN [is_valid |-> FALSE, msg |-> "no_3years", fin_data |-> NoFinancialData]
    ELSE IF ~financial_data.has_3years
    THEN [is_valid |-> FALSE, msg |-> "no_3years", fin_data |-> financial_data]
    ELSE IF Len(financial_data.reports) < 3
    THEN [is_valid |-> FALSE, msg |-> "no_3reports", fin_data |-> financial_data]
    ELSE IF GrowthRaises(financial_data.reports)
    THEN Raised
    ELSE IF ~AverageInRange(SumRevenueGrowth(financial_data.reports), min_growth, max_growth)
    THEN [is_valid |-> FALSE, msg |-> "revenue", fin_data |-> financial_data]
    ELSE IF ~AverageInRange(SumProfitGrowth(financial_data.reports), min_growth, max_growth)
    THEN [is_valid |-> FALSE, msg |-> "profit", fin_data |-> financial_data]
    ELSE [is_valid |-> TRUE, msg |-> "ok",
          fin_data |-> [symbol |-> financial_data.symbol,
                        reports |-> financial_data.reports,
                        has_3years |-> financial_data.has_3years,
                        sum_revenue_growth |-> SumRevenueGrowth(financial_data.reports),
                        sum_profit_growth |-> SumProfitGrowth(financial_data.reports)]]

----------------------------------------------------------------------------
(* Screener.screen *)

\* the test of line 69 with pe < 0 in place of pe <= 0
DataInvalidLoose(data) == data.price = 0 \/ data.pe < 0 \/ data.week_52_low = 0
\* line 69-80: the four tests of the cheap filter on one quote
DataInvalid(data) == data.price = 0 \/ data.pe <= 0 \/ data.week_52_low = 0
PeTooHigh(data, max_pe) == data.pe > max_pe
\* the comparison with > in place of >=
PriceTooHighStrict(data, price_ratio) == data.price > data.week_52_low * price_ratio
PriceTooHigh(data, price_ratio) == data.price >= data.week_52_low * price_ratio

CountsAsTech(data, max_pe) ==
    ~DataInvalid(data) /\ ~PeTooHigh(data, max_pe) /\ is_tech_stock(data.name)

PassesCheapFilter(data, max_pe, price_ratio) ==
    CountsAsTech(data, max_pe) /\ ~PriceTooHigh(data, price_ratio)

\* line 82-90
Candidate(symbol, data) ==
    [symbol |-> symbol, name |-> data.name, price |-> data.price, pe |-> data.pe,
     week_52_low |-> data.week_52_low]

\* the symbols of the stock list, in its order, that satisfy P
RECURSIVE SelectSymbols(_, _)
SelectSymbols(n, S) ==
    IF n = 0 THEN <<>>
    ELSE IF Symbol(n) \in S THEN Append(SelectSymbols(n - 1, S), Symbol(n))
    ELSE SelectSymbols(n - 1, S)

\* a loop that makes a candidate of every symbol of the stock list
CheapCandidatesAll(dm, max_pe, price_ratio) ==
    [i \in 1..Len(stocks) |->
        Candidate(stocks[i], IF stocks[i] \in DOMAIN dm THEN dm[stocks[i]] ELSE NoQuote)]

\* line 60-90: the loop over data_map, taken in the order of the stock list
\* (week_52_high and pb are copied along and left out here)
CheapCandidates(dm, max_pe, price_ratio) ==
    LET pass == {symbol \in DOMAIN dm : PassesCheapFilter(dm[symbol], max_pe, price_ratio)}
        order == SelectSymbols(Len(stocks), pass)
    IN [i \in 1..Len(order) |-> Candidate(order[i], dm[order[i]])]

\* a counter that is incremented behind the price test, where the quote is
\* rejected
TechCountRejected(dm, max_pe) ==
    Cardinality({symbol \in DOMAIN dm :
                    /\ CountsAsTech(dm[symbol], max_pe)
                    /\ PriceTooHigh(dm[symbol], params.price_ratio)})

\* line 61, 77: tech_count
TechCount(dm, max_pe) ==
    Cardinality({symbol \in DOMAIN dm : CountsAsTech(dm[symbol], max_pe)})

\* line 99: ThreadPoolExecutor(max_workers): a queued future starts when one of
\* the max_workers threads is free
Running == {i \in 1..Len(futures) : futures[i] = "running"}
\* a pool that starts a thread for every future
PoolUnbounded == TRUE
PoolHasFreeThread == Cardinality(Running) < params.max_workers

\* a pool that may take a future again while it is running
NextUnfinished(i) ==
    /\ i \in 1..Len(futures)
    /\ futures[i] # "finished"
    /\ \A j \in 1..(i - 1) : futures[j] # "queued"

\* the pool takes the futures in the order of submission
NextQueued(i) ==
    /\ i \in 1..Len(futures)
    /\ futures[i] = "queued"
    /\ \A j \in 1..(i - 1) : futures[j] # "queued"

\* the future has no result yet
NoResult == [none |-> TRUE]

\* fin_data.get(field, 0)
GetOr0(fin_data, field) == IF field \in DOMAIN fin_data THEN fin_data[field] ELSE 0

\* line 109: every result is taken
AcceptedAlways(result) == TRUE
\* line 109: if is_valid
Accepted(result) == result.is_valid

\* line 111-116: the financial data of every result are written onto the
\* first candidate
EnrichedFirst(result) ==
    IF result.fin_data = NoFinancialData THEN candidates[1]
    ELSE [symbol |-> candidates[1].symbol, name |-> candidates[1].name,
          price |-> candidates[1].price, pe |-> candidates[1].pe,
          week_52_low |-> candidates[1].week_52_low,
          sum_revenue_growth |-> GetOr0(result.fin_data, "sum_revenue_growth"),
          sum_profit_growth |-> GetOr0(result.fin_data, "sum_profit_growth"),
          revenue_growth |-> [k \in 1..Len(result.fin_data.reports) |->
                                 result.fin_data.reports[k].revenue_growth],
          profit_growth |-> [k \in 1..Len(result.fin_data.reports) |->
                                 result.fin_data.reports[k].profit_growth]]

\* line 111-116: a result with financial data is written onto its candidate
Enriched(result) ==
    IF result.fin_data = NoFinancialData THEN result.candidate
    ELSE [symbol |-> result.candidate.symbol, name |-> result.candidate.name,
          price |-> result.candidate.price, pe |-> result.candidate.pe,
          week_52_low |-> result.candidate.week_52_low,
          sum_revenue_growth |-> GetOr0(result.fin_data, "sum_revenue_growth"),
          sum_profit_growth |-> GetOr0(result.fin_data, "sum_profit_growth"),
          revenue_growth |-> [k \in 1..Len(result.fin_data.reports) |->
                                 result.fin_data.reports[k].revenue_growth],
          profit_growth |-> [k \in 1..Len(result.fin_data.reports) |->
                                 result.fin_data.reports[k].profit_growth]]

\* line 122: list.sort(key = pe) is stable: x goes behind every element whose
\* pe is not larger
InsertByPe(sorted, x) ==
    LET k == Cardinality({i \in 1..Len(sorted) : sorted[i].pe <= x.pe})
    IN SubSeq(sorted, 1, k) \o <<x>> \o SubSeq(sorted, k + 1, Len(sorted))

RECURSIVE SortByPe(_)
SortByPe(list) ==
    IF list = <<>> THEN <<>>
    ELSE InsertByPe(SortByPe(SubSeq(list, 1, Len(list) - 1)), list[Len(list)])

\* the whole list in place of list[:10]
TopAll(list) == list
\* list[:10]
Top(list) == SubSeq(list, 1, IF Len(list) < TopN THEN Len(list) ELSE TopN)

\* line 20-26: what _check_single_stock returns for candidate c when
\* get_financial_data returns financial_data, or the exception that leaves it
CheckSingleStock(c, financial_data, growth_min, growth_max) ==
    LET r == check_growth_condition(financial_data, growth_min, growth_max)
    IN IF r = Raised THEN Raised
       ELSE [is_valid |-> r.is_valid, msg |-> r.msg, fin_data |-> r.fin_data,
             candidate |-> c]

\* line 44-47
ScreenStockList ==
    /\ spc = "start"
    /\ stocks' = StockList
    /\ spc' = "stock_list"
    /\ UNCHANGED <<params, data_map, candidates, tech_count, futures, results,
                   collected, final_candidates, fetch_log, stats, returned, reported>>

\* line 50-56: one call of get_realtime_data for all the symbols. A cached
\* quote is one that was valid when it was fetched, so the result is the valid
\* part of some upstream answer.
ScreenRealtimeData ==
    /\ spc = "stock_list"
    /\ \E upstream \in [{stocks[i] : i \in 1..Len(stocks)} -> UpstreamQuotes] :
          data_map' = RealtimeData(upstream)
    /\ spc' = "quotes"
    /\ UNCHANGED <<params, stocks, candidates, tech_count, futures, results,
                   collected, final_candidates, fetch_log, stats, returned, reported>>

\* line 59-93: the cheap filter
ScreenCheapFilter ==
    /\ spc = "quotes"
    /\ candidates' = CheapCandidates(data_map, params.max_pe, params.price_ratio)
    /\ tech_count' = TechCount(data_map, params.max_pe)
    /\ spc' = "submit"
    /\ UNCHANGED <<params, stocks, data_map, futures, results, collected,
                   final_candidates, fetch_log, stats, returned, reported>>

\* line 100-103: executor.submit of the next candidate; behind the last one
\* as_completed begins
ScreenSubmit ==
    /\ spc = "submit"
    /\ IF Len(futures) < Len(candidates)
       THEN /\ futures' = Append(futures, "queued")
            /\ results' = Append(results, NoResult)
            /\ UNCHANGED spc
       ELSE /\ spc' = "as_completed"
            /\ UNCHANGED <<futures, results>>
    /\ UNCHANGED <<params, stocks, data_map, candidates, tech_count, collected,
                   final_candidates, fetch_log, stats, returned, reported>>

\* a thread of the pool takes future i: _check_single_stock begins, line 22-23,
\* and asks the report provider for the symbol
PoolStart(i) ==
    /\ NextQueued(i)
    /\ PoolHasFreeThread
    /\ futures' = [futures EXCEPT ![i] = "running"]
    /\ fetch_log' = DictSet(fetch_log, candidates[i].symbol,
                            IF candidates[i].symbol \in DOMAIN fetch_log
                            THEN fetch_log[candidates[i].symbol] + 1 ELSE 1)
    /\ UNCHANGED <<spc, params, stocks, data_map, candidates, tech_count, results,
                   collected, final_candidates, stats, returned, reported>>

\* a worker that would append its own candidate to the shared list, instead
\* of returning it to the thread that runs screen
PoolFinishMerging(i) ==
    /\ i \in 1..Len(futures)
    /\ futures[i] = "running"
    /\ \E financial_data \in FinancialResults(candidates[i].symbol) :
          \E result \in {CheckSingleStock(candidates[i], financial_data,
                                          params.growth_min, params.growth_max)} :
             /\ results' = [results EXCEPT ![i] = result]
             /\ final_candidates' =
                   IF Accepted(result)
                   THEN Append(final_candidates, Enriched(result))
                   ELSE final_candidates
    /\ futures' = [futures EXCEPT ![i] = "finished"]
    /\ UNCHANGED <<spc, params, stocks, data_map, candidates, tech_count, collected,
                   fetch_log, stats, returned, reported>>

\* _check_single_stock returns, line 23-26, or an exception leaves it: the
\* TypeError of check_growth_condition, or an error of cache.get, which
\* get_financial_data calls outside its try (eastmoney.py line 35; cache.py
\* line 60-61 opens and parses the payload file unguarded)
PoolFinish(i) ==
    /\ i \in 1..Len(futures)
    /\ futures[i] = "running"
    /\ \/ \E financial_data \in FinancialResults(candidates[i].symbol) :
             results' = [results EXCEPT ![i] =
                            CheckSingleStock(candidates[i], financial_data,
                                             params.growth_min, params.growth_max)]
       \/ results' = [results EXCEPT ![i] = Raised]
    /\ futures' = [futures EXCEPT ![i] = "finished"]
    /\ UNCHANGED <<spc, params, stocks, data_map, candidates, tech_count, collected,
                   final_candidates, fetch_log, stats, returned, reported>>

\* line 105-116: as_completed yields a finished future; future.result() raises
\* again what the worker raised, which ends the loop
ScreenCollect(i) ==
    /\ spc = "as_completed"
    /\ i \in 1..Len(futures)
    /\ futures[i] = "finished"
    /\ i \notin collected
    /\ collected' = collected \cup {i}
    /\ IF results[i] = Raised
       THEN /\ spc' = "raising"
            /\ UNCHANGED final_candidates
       ELSE /\ final_candidates' =
                  IF Accepted(results[i])
                  THEN Append(final_candidates, Enriched(results[i]))
                  ELSE final_candidates
            /\ UNCHANGED spc
    /\ UNCHANGED <<params, stocks, data_map, candidates, tech_count, futures,
                   results, fetch_log, stats, returned, reported>>

\* line 99: the exception leaves the with statement, whose exit waits for the
\* pool to run every future submitted, and then leaves screen: nothing is
\* returned, self.stats is not assigned
ScreenRaise ==
    /\ spc = "raising"
    /\ \A i \in 1..Len(futures) : futures[i] = "finished"
    /\ spc' = "raised"
    /\ UNCHANGED <<params, stocks, data_map, candidates, tech_count, futures,
                   results, collected, final_candidates, fetch_log, stats,
                   returned, reported>>

\* a screen that would sort as soon as the futures are submitted, without
\* waiting for as_completed to yield every one of them
ScreenSortEarly ==
    /\ spc = "as_completed"
    /\ final_candidates' = SortByPe(final_candidates)
    /\ stats' = [total_scanned |-> Len(stocks),
                 valid_data |-> Cardinality(DOMAIN data_map),
                 tech_stocks |-> tech_count,
                 after_preliminary |-> Len(candidates),
                 final_selected |-> Len(final_candidates)]
    /\ spc' = "sorted"
    /\ UNCHANGED <<params, stocks, data_map, candidates, tech_count, futures,
                   results, collected, fetch_log, returned, reported>>

\* line 99, 118-131: as_completed is exhausted, the with statement shuts the
\* pool down, the list is sorted and the stats are kept
ScreenSort ==
    /\ spc = "as_completed"
    /\ collected = 1..Len(futures)
    /\ final_candidates' = SortByPe(final_candidates)
    /\ stats' = [total_scanned |-> Len(stocks),
                 valid_data |-> Cardinality(DOMAIN data_map),
                 tech_stocks |-> tech_count,
                 after_preliminary |-> Len(candidates),
                 final_selected |-> Len(final_candidates)]
    /\ spc' = "sorted"
    /\ UNCHANGED <<params, stocks, data_map, candidates, tech_count, futures,
                   results, collected, fetch_log, returned, reported>>

\* line 133-153
ScreenReturn ==
    /\ spc = "sorted"
    /\ reported' = IF params.generate_report /\ final_candidates # <<>>
                    THEN [results |-> Top(final_candidates), stats |-> stats,
                          params |-> [max_pe |-> params.max_pe,
                                      price_ratio |-> params.price_ratio,
                                      growth_min |-> params.growth_min,
                                      growth_max |-> params.growth_max]]
                    ELSE NoReport
    /\ returned' = Top(final_candidates)
    /\ spc' = "returned"
    /\ UNCHANGED <<params, stocks, data_map, candidates, tech_count, futures,
                   results, collected, final_candidates, fetch_log, stats>>

\* the arguments screen is called with: the defaults (run_screener.py), and
\* a growth range given the wrong way round
ScreenParams ==
    { [max_pe |-> DefaultMaxPe, price_ratio |-> DefaultPriceRatio,
       growth_min |-> g[1], growth_max |-> g[2],
       max_workers |-> n, generate_report |-> TRUE] :
         n \in 1..MaxWorkers,
         g \in { <<DefaultGrowthMin, DefaultGrowthMax>>,
                 <<DefaultGrowthMax, DefaultGrowthMin>> } }

ScreenInit ==
    /\ CacheInit
    /\ SetIdle
    /\ OtherIdle
    /\ spc = "start"
    /\ params \in ScreenParams
    /\ stocks = <<>>
    /\ data_map = EmptyDict
    /\ candidates = <<>>
    /\ tech_count = 0
    /\ futures = <<>>
    /\ results = <<>>
    /\ collected = {}
    /\ final_candidates = <<>>
    /\ fetch_log = EmptyDict
    /\ stats = EmptyDict
    /\ returned = <<>>
    /\ reported = NoReport

ScreenNext ==
    \/ ScreenStockList /\ UNCHANGED <<cacheVars, setVars, otherVars>>
    \/ ScreenRealtimeData /\ UNCHANGED <<cacheVars, setVars, otherVars>>
    \/ ScreenCheapFilter /\ UNCHANGED <<cacheVars, setVars, otherVars>>
    \/ ScreenSubmit /\ UNCHANGED <<cacheVars, setVars, otherVars>>
    \/ \E i \in 1..NumSymbols : PoolStart(i) /\ UNCHANGED <<cacheVars, setVars, otherVars>>
    \/ \E i \in 1..NumSymbols : PoolFinish(i) /\ UNCHANGED <<cacheVars, setVars, otherVars>>
    \/ \E i \in 1..NumSymbols : ScreenCollect(i) /\ UNCHANGED <<cacheVars, setVars, otherVars>>
    \/ ScreenRaise /\ UNCHANGED <<cacheVars, setVars, otherVars>>
    \/ ScreenSort /\ UNCHANGED <<cacheVars, setVars, otherVars>>
    \/ ScreenReturn /\ UNCHANGED <<cacheVars, setVars, otherVars>>

SpecScreen == ScreenInit /\ [][ScreenNext]_vars

----------------------------------------------------------------------------
(* The cheap filter, line 59-93, on one quote out of a wider range: the run *)
(* is taken up where get_realtime_data has returned.                        *)

FilterNames == {"xAI", "5Gy", "AI", "bank", "A5I", ""}
FilterPrices == {0, 10, 12}
FilterPes == {-1, 0, 8, 100, 101}
FilterLows == {-1, 0, 4, 5, 6}

FilterQuotes ==
    {Quote(name, price, pe, week_52_low) :
        name \in FilterNames, price \in FilterPrices, pe \in FilterPes,
        week_52_low \in FilterLows}

FilterInit ==
    /\ CacheInit
    /\ SetIdle
    /\ OtherIdle
    /\ spc = "quotes"
    /\ params \in {p \in ScreenParams : p.max_workers = 1 /\ p.growth_min <= p.growth_max}
    /\ stocks = <<Symbol(1)>>
    /\ \E q \in FilterQuotes : data_map = RealtimeData([symbol \in {Symbol(1)} |-> q])
    /\ candidates = <<>>
    /\ tech_count = 0
    /\ futures = <<>>
    /\ results = <<>>
    /\ collected = {}
    /\ final_candidates = <<>>
    /\ fetch_log = EmptyDict
    /\ stats = EmptyDict
    /\ returned = <<>>
    /\ reported = NoReport

FilterNext == ScreenCheapFilter /\ UNCHANGED <<cacheVars, setVars, otherVars>>

SpecFilter == FilterInit /\ [][FilterNext]_vars

----------------------------------------------------------------------------
(* The two providers with their caches, called for one symbol: the quote    *)
(* provider (get_realtime_data) and the report provider under the growth    *)
(* check (_check_single_stock -> check_growth_condition ->                  *)
(* get_financial_data). The two CacheManagers have disjoint keys and are    *)
(* kept in one. The clock stands still.                                     *)

\* the quotes the upstream may answer with: those of a run, and one without
\* a name
ProviderQuotes == UpstreamQuotes \cup {Quote("", 10, 8, 6)}

\* the rows the upstream may answer with
ProviderRows ==
    { Row("annual", 2023, Num(45), Num(100)),
      Row("annual", 2022, Num(45), Num(100)),
      Row("annual", 2021, Null, Num(100)),       \* with the two above: 30 and 100
      Row("annual", 2021, Num(-1), Num(100)),    \* with the two above: below 30
      Row("annual", 2020, Num(0), Num(101)),     \* with the two above: above 100
      Row("Q3", 2023, Num(60), Num(60)),         \* no annual report
      Row("annual", 2021, Text("--"), Num(100)) }

RECURSIVE SeqsUpTo(_, _)
SeqsUpTo(S, n) ==
    IF n = 0 THEN {<<>>}
    ELSE LET shorter == SeqsUpTo(S, n - 1)
         IN shorter \cup {Append(q, x) : q \in shorter, x \in S}

\* the answers of the report provider
ProviderResponses ==
    {Failed, Response(FALSE, <<>>)}
        \cup {Response(TRUE, rows) : rows \in SeqsUpTo(ProviderRows, MaxRows)}

\* cache.py line 75: 'size' is len(str(data)); for the records of the model
\* it is counted in fields
PayloadSize(data) == Cardinality(DOMAIN data)

\* get finds key in one of the tiers
CacheHit(key) == GetMemoryHit(key) \/ GetDiskHit(key)

\* cache.set(key, data, expire_hours), behind a get(key) that missed
SetAfterMiss(key, data, expire_hours) ==
    /\ memory_cache' = DictSet(GetMemory(key), key, CacheItem(data, now, expire_hours))
    /\ files' = SetFiles(key, data)
    /\ meta' = DictSet(meta, key, [time |-> now, size |-> PayloadSize(data)])
    /\ meta_file' = SaveMeta(DictSet(meta, key, [time |-> now, size |-> PayloadSize(data)]))
    /\ subdirs' = GetFilePath(key)
    /\ written' = Record(key, data, expire_hours)

\* tencent.py line 53-56: get_realtime_data([symbol]) finds the quote cached
RealtimeCached(symbol) ==
    /\ CacheHit("rt_" \o symbol)
    /\ data_map' = [x \in {symbol} |-> GetResult("rt_" \o symbol)]
    /\ memory_cache' = GetMemory("rt_" \o symbol)
    /\ subdirs' = GetSubdirs("rt_" \o symbol)
    /\ UNCHANGED <<now, files, meta, meta_file, written, setVars, otherVars, spc, params,
                   stocks, candidates, tech_count, futures, results, collected,
                   final_candidates, fetch_log, stats, returned, reported>>

\* tencent.py line 57-69: the quote is not cached and the upstream answers
\* data for the symbol
RealtimeFetched(symbol, data) ==
    /\ ~CacheHit("rt_" \o symbol)
    /\ IF ValidQuote(data)
       THEN /\ SetAfterMiss("rt_" \o symbol, data, QuoteExpireHours)
            /\ data_map' = [x \in {symbol} |-> data]
       ELSE /\ memory_cache' = GetMemory("rt_" \o symbol)
            /\ subdirs' = GetSubdirs("rt_" \o symbol)
            /\ data_map' = EmptyDict
            /\ UNCHANGED <<files, meta, meta_file, written>>
    /\ UNCHANGED <<now, setVars, otherVars, spc, params, stocks, candidates, tech_count,
                   futures, results, collected, final_candidates, fetch_log,
                   stats, returned, reported>>

\* eastmoney.py line 128-129: check_growth_condition writes the averages into
\* the dict get_financial_data returned, which is the dict the memory tier
\* holds
WithAverages(mem, key, r) ==
    IF r # Raised /\ r.is_valid
    THEN [mem EXCEPT ![key] = CacheItem(r.fin_data, mem[key].timestamp,
                                        mem[key].expire_hours)]
    ELSE mem

\* _check_single_stock when get_financial_data finds the report cached
CheckCached(i) ==
    LET key == "fin_" \o candidates[i].symbol
        r == CheckSingleStock(candidates[i], GetResult(key),
                              params.growth_min, params.growth_max)
    IN /\ CacheHit(key)
       /\ results' = [results EXCEPT ![i] = r]
       /\ memory_cache' = WithAverages(GetMemory(key), key, r)
       /\ subdirs' = GetSubdirs(key)
       /\ UNCHANGED <<now, files, meta, meta_file, written, setVars, otherVars, spc, params,
                      stocks, data_map, candidates, tech_count, futures, collected,
                      final_candidates, fetch_log, stats, returned, reported>>

\* _check_single_stock when the report is not cached and the upstream answers
\* response
CheckFetched(i, response) ==
    LET key == "fin_" \o candidates[i].symbol
        financial_data == get_financial_data(candidates[i].symbol, response)
        r == CheckSingleStock(candidates[i], financial_data,
                              params.growth_min, params.growth_max)
    IN /\ ~CacheHit(key)
       /\ results' = [results EXCEPT ![i] = r]
       /\ IF financial_data = NoFinancialData
          THEN /\ memory_cache' = GetMemory(key)
               /\ subdirs' = GetSubdirs(key)
               /\ UNCHANGED <<files, meta, meta_file, written>>
          ELSE /\ memory_cache' =
                     WithAverages(DictSet(GetMemory(key), key,
                                          CacheItem(financial_data, now, ReportExpireHours)),
                                  key, r)
               /\ files' = SetFiles(key, financial_data)
               /\ meta' = DictSet(meta, key, [time |-> now, size |-> PayloadSize(financial_data)])
               /\ meta_file' = SaveMeta(DictSet(meta, key,
                                   [time |-> now, size |-> PayloadSize(financial_data)]))
               /\ subdirs' = GetFilePath(key)
               /\ written' = Record(key, financial_data, ReportExpireHours)
       /\ UNCHANGED <<now, setVars, otherVars, spc, params, stocks, data_map, candidates,
                      tech_count, futures, collected, final_candidates, fetch_log,
                      stats, returned, reported>>

\* one symbol that has passed the cheap filter; neither provider was called
ProviderInit ==
    /\ CacheInit
    /\ SetIdle
    /\ OtherIdle
    /\ spc = "idle"
    /\ params \in {p \in ScreenParams : p.max_workers = 1 /\ p.growth_min <= p.growth_max}
    /\ stocks = <<Symbol(1)>>
    /\ data_map = EmptyDict
    /\ candidates = <<Candidate(Symbol(1), Quote("xAI", 10, 8, 6))>>
    /\ tech_count = 0
    /\ futures = <<>>
    /\ results = <<NoResult>>
    /\ collected = {}
    /\ final_candidates = <<>>
    /\ fetch_log = EmptyDict
    /\ stats = EmptyDict
    /\ returned = <<>>
    /\ reported = NoReport

ProviderNext ==
    \/ RealtimeCached(Symbol(1))
    \/ \E data \in ProviderQuotes : RealtimeFetched(Symbol(1), data)
    \/ CheckCached(1)
    \/ \E response \in ProviderResponses : CheckFetched(1, response)

SpecProviders == ProviderInit /\ [][ProviderNext]_vars

----------------------------------------------------------------------------
(* The end of screen, line 118-153, for a stock list of MaxRanked symbols:  *)
(* the runs are taken up where the thread pool has shut down and            *)
(* as_completed is exhausted, and followed through the sort and the return. *)

RankSymbols == {Symbol(i) : i \in 1..MaxRanked}

\* quotes that pass the cheap filter, with two values of pe
RankQuotes == {Quote("xAI", 10, 8, 6), Quote("5Gy", 10, 12, 6)}

\* the quotes of the first RankFree symbols vary, those of the others have
\* pe 8 and 12 in turn
RankFree == MaxRanked - TopN + 3
RankPe(i) == IF i % 2 = 0 THEN 8 ELSE 12

\* line 105-116 for the futures in the order as_completed yields them
RECURSIVE CollectAll(_, _)
CollectAll(order, res) ==
    IF order = <<>> THEN <<>>
    ELSE LET rest == CollectAll(SubSeq(order, 1, Len(order) - 1), res)
             r == res[order[Len(order)]]
         IN IF Accepted(r) THEN Append(rest, Enriched(r)) ELSE rest

\* Every symbol has a quote that passes the cheap filter, but for the first,
\* which may be of no category; the report provider has three good years for
\* every candidate but for at most one, for which it has nothing; the futures
\* complete in the order of submission or in the reverse order.
RankInit ==
    /\ CacheInit
    /\ SetIdle
    /\ OtherIdle
    /\ spc = "as_completed"
    /\ params \in {p \in ScreenParams : p.max_workers = 1 /\ p.growth_min <= p.growth_max}
    /\ stocks = [i \in 1..MaxRanked |-> Symbol(i)]
    /\ \E dm \in [RankSymbols \ {Symbol(1)} -> RankQuotes],
          q \in RankQuotes \cup {Quote("bank", 10, 8, 6)} :
          /\ \A i \in (RankFree + 1)..MaxRanked : dm[Symbol(i)].pe = RankPe(i)
          /\ data_map = DictSet(dm, Symbol(1), q)
    /\ candidates = CheapCandidates(data_map, params.max_pe, params.price_ratio)
    /\ tech_count = TechCount(data_map, params.max_pe)
    /\ futures = [i \in 1..Len(candidates) |-> "finished"]
    /\ \E absent \in {0, 2} :
          results = [i \in 1..Len(candidates) |->
                        CheckSingleStock(candidates[i],
                            IF i = absent THEN NoFinancialData
                            ELSE FinancialData(candidates[i].symbol,
                                     << Report(2023, Num(30), Num(100)),
                                        Report(2022, Num(60), Num(40)),
                                        Report(2021, Num(90), Num(40)) >>),
                            params.growth_min, params.growth_max)]
    /\ collected = 1..Len(candidates)
    /\ \E reverse \in BOOLEAN :
          final_candidates =
              CollectAll([i \in 1..Len(candidates) |->
                             IF reverse THEN Len(candidates) + 1 - i ELSE i], results)
    /\ fetch_log = [symbol \in {candidates[i].symbol : i \in 1..Len(candidates)} |-> 1]
    /\ stats = EmptyDict
    /\ returned = <<>>
    /\ reported = NoReport

RankNext ==
    \/ ScreenSort /\ UNCHANGED <<cacheVars, setVars, otherVars>>
    \/ ScreenReturn /\ UNCHANGED <<cacheVars, setVars, otherVars>>

SpecRank == RankInit /\ [][RankNext]_vars

----------------------------------------------------------------------------
(* TencentDataSource.get_realtime_data for a list of symbols, line 48-69:   *)
(* the cache is asked for every symbol, the symbols it does not hold are    *)
(* fetched batch by batch, one _fetch_batch a step. The clock stands still. *)

\* line 72-77: the code of a symbol in the request
Code(s) ==
    IF Len(s) = 6
    THEN (IF SubSeq(s, 1, 1) = "6" THEN "sh" ELSE "sz") \o s
    ELSE s

\* line 92: the symbol of a code of the answer
SymbolOfCode(code) == IF Len(code) > 6 THEN SubSeq(code, 3, Len(code)) ELSE code

\* the symbol itself as the key
BareKey(s) == s
\* f"rt_{s}" and back
RtKey(s) == "rt_" \o s
SymbolOfRtKey(key) == SubSeq(key, 4, Len(key))

\* the quote an earlier call has cached for the i-th symbol, and the quotes
\* the upstream has for it now
CachedQuote(i) == Quote("xAI", 9, i, 6)
FreshQuote(i) == Quote("xAI", 10, i, 6)
UnpricedQuote(i) == Quote("xAI", 0, i, 6)

\* what the upstream does with one request
BatchOutcomes == {"error", "all", "some"}

\* the list of the codes of a batch
Codes(batch) == [j \in 1..Len(batch) |-> Code(batch[j])]

\* the upstream has a quote for every symbol ("all"), or for two symbols out
\* of three, every second of them without a price ("some")
Answered(outcome, i) == outcome = "all" \/ (outcome = "some" /\ i % 3 # 0)
UpstreamQuote(outcome, i) ==
    IF outcome = "some" /\ i % 3 = 2 THEN UnpricedQuote(i) ELSE FreshQuote(i)

\* _fetch_batch, line 79-105: an error or a timeout gives {}
FetchBatch(batch, outcome) ==
    LET answered == {j \in 1..Len(batch) : Answered(outcome, SymbolIndexOf(batch[j]))}
    IN [symbol \in {SymbolOfCode(Code(batch[j])) : j \in answered} |->
           UpstreamQuote(outcome, SymbolIndexOf(symbol))]

\* line 61: to_fetch[i:i+100]
BatchWhole(i) == SubSeq(to_fetch, i + 1, Len(to_fetch))
Batch(i) ==
    SubSeq(to_fetch, i + 1,
           IF i + BatchSize < Len(to_fetch) THEN i + BatchSize ELSE Len(to_fetch))

\* a loop that goes on only behind a batch that was answered, and sends a
\* batch without an answer again
BatchStartAfterAnswers ==
    BatchSize * Cardinality({r \in 1..Len(answers) : answers[r] # EmptyDict})

\* the i of line 60 after the batches sent so far
BatchStart == BatchSize * Len(requests)

\* line 53-58: the cache is asked for every symbol of the call; hit is the
\* set of the symbols it holds
RealtimeCheck ==
    \E hit \in {{stocks[j] : j \in {i \in 1..Len(stocks) : CacheHit(RtKey(stocks[i]))}}} :
       /\ rpc = "idle"
       /\ rt_results' = [s \in hit |-> GetResult(RtKey(s))]
       /\ to_fetch' = SelectSeq(stocks, LAMBDA s : s \notin hit)
       /\ memory_cache' =
              [k \in {x \in DOMAIN memory_cache :
                         GetMemoryHit(x) \/ x \notin {RtKey(stocks[j]) : j \in 1..Len(stocks)}}
                     \cup {RtKey(s) : s \in hit} |->
                  IF GetMemoryHit(k) \/ SymbolOfRtKey(k) \notin hit
                  THEN memory_cache[k]
                  ELSE CacheItem(files[k], meta[k].time, DefaultExpireHours)]
       /\ subdirs' = subdirs \cup {Prefix(RtKey(stocks[j])) :
                                      j \in {i \in 1..Len(stocks) :
                                                ~GetMemoryHit(RtKey(stocks[i]))}}
       /\ rpc' = "fetch"
       /\ UNCHANGED <<now, files, meta, meta_file, written, requests, answers,
                      data_map>>

\* cache.set(f"rt_{symbol}", data, expire_hours=1) for every quote of valid
SetQuotes(valid) ==
    \E new_meta \in {[k \in DOMAIN meta \cup {RtKey(s) : s \in DOMAIN valid} |->
                         IF SymbolOfRtKey(k) \in DOMAIN valid
                         THEN [time |-> now,
                               size |-> PayloadSize(valid[SymbolOfRtKey(k)])]
                         ELSE meta[k]]} :
       /\ memory_cache' =
              [k \in DOMAIN memory_cache \cup {RtKey(s) : s \in DOMAIN valid} |->
                  IF SymbolOfRtKey(k) \in DOMAIN valid
                  THEN CacheItem(valid[SymbolOfRtKey(k)], now, QuoteExpireHours)
                  ELSE memory_cache[k]]
       /\ files' = [k \in DOMAIN files \cup {RtKey(s) : s \in DOMAIN valid} |->
                       IF SymbolOfRtKey(k) \in DOMAIN valid
                       THEN valid[SymbolOfRtKey(k)] ELSE files[k]]
       /\ meta' = new_meta
       /\ meta_file' = IF valid = EmptyDict THEN meta_file ELSE SaveMeta(new_meta)
       /\ subdirs' = subdirs \cup {Prefix(RtKey(s)) : s \in DOMAIN valid}
       /\ written' =
              [k \in DOMAIN written \cup {RtKey(s) : s \in DOMAIN valid} |->
                  IF SymbolOfRtKey(k) \in DOMAIN valid
                  THEN [data |-> valid[SymbolOfRtKey(k)], time |-> now,
                        ttl |-> QuoteExpireHours,
                        over |-> k \in DOMAIN written
                                 /\ written[k].data # valid[SymbolOfRtKey(k)]
                                 /\ written[k].ttl = QuoteExpireHours]
                  ELSE written[k]]

\* line 66: results[symbol] = data for the quotes of valid
MergedOrNothing(old, valid) ==
    IF valid = EmptyDict THEN EmptyDict
    ELSE [s \in DOMAIN old \cup DOMAIN valid |->
             IF s \in DOMAIN valid THEN valid[s] ELSE old[s]]
Merged(old, valid) ==
    [s \in DOMAIN old \cup DOMAIN valid |->
        IF s \in DOMAIN valid THEN valid[s] ELSE old[s]]

\* line 60-67: one batch is fetched; the quotes that have a name and a price
\* are cached and returned
RealtimeBatch(outcome) ==
    \E batch \in {Batch(BatchStart)} :
    \E batch_results \in {FetchBatch(batch, outcome)} :
    \E valid \in {[s \in {x \in DOMAIN batch_results : ValidQuote(batch_results[x])} |->
                      batch_results[s]]} :
       /\ rpc = "fetch"
       /\ BatchStart < Len(to_fetch)
       /\ requests' = Append(requests, Codes(batch))
       /\ answers' = Append(answers, batch_results)
       /\ rt_results' = Merged(rt_results, valid)
       /\ SetQuotes(valid)
       /\ UNCHANGED <<now, rpc, to_fetch, data_map>>

\* line 69, and engine.py line 52: data_map = get_realtime_data(symbols)
RealtimeReturn ==
    /\ rpc = "fetch"
    /\ BatchStart >= Len(to_fetch)
    /\ data_map' = rt_results
    /\ rpc' = "returned"
    /\ UNCHANGED <<cacheVars, to_fetch, rt_results, requests, answers>>

\* the lengths of the symbol lists of the calls
RequestSizes == {0, 1, BatchSize, BatchSize + 1, 2 * BatchSize, MaxRequested}

\* the symbols, by their places in the stock list, whose quotes an earlier
\* call has cached
CachedPlaces ==
    { {}, {1}, 1..MaxRequested, {i \in 1..MaxRequested : i % 2 = 0},
      (BatchSize + 1)..MaxRequested }

\* the hours of the calls after an earlier call at hour 0: its quotes are
\* within their expire_hours, beyond them, and beyond the 24 hours of the
\* disk tier
CallHours == {QuoteExpireHours, QuoteExpireHours + 1, DiskExpireHours + 1}

\* get_realtime_data is called with the first n symbols of the stock list;
\* an earlier call at hour 0 has cached the quotes of some symbols, and the
\* process has or has not been started anew since
RealtimeInit ==
    /\ now \in CallHours
    /\ \E places \in CachedPlaces :
       \E cached \in {[k \in {RtKey(Symbol(i)) : i \in places} |->
                          CachedQuote(SymbolIndexOf(SymbolOfRtKey(k)))]} :
          /\ files = cached
          /\ subdirs = {Prefix(k) : k \in DOMAIN cached}
          /\ meta = [k \in DOMAIN cached |->
                        [time |-> 0, size |-> PayloadSize(cached[k])]]
          /\ written = [k \in DOMAIN cached |->
                           [data |-> cached[k], time |-> 0,
                            ttl |-> QuoteExpireHours, over |-> FALSE]]
          /\ \E restarted \in BOOLEAN :
                memory_cache =
                    IF restarted THEN EmptyDict
                    ELSE [k \in DOMAIN cached |->
                             CacheItem(cached[k], 0, QuoteExpireHours)]
    /\ meta_file = IF meta = EmptyDict THEN NoFile ELSE DumpOf(meta)
    /\ SetIdle
    /\ spc = "stock_list"
    /\ params \in {p \in ScreenParams : p.max_workers = 1 /\ p.growth_min <= p.growth_max}
    /\ \E n \in RequestSizes : stocks = [i \in 1..n |-> Symbol(i)]
    /\ data_map = EmptyDict
    /\ candidates = <<>>
    /\ tech_count = 0
    /\ futures = <<>>
    /\ results = <<>>
    /\ collected = {}
    /\ final_candidates = <<>>
    /\ fetch_log = EmptyDict
    /\ stats = EmptyDict
    /\ returned = <<>>
    /\ reported = NoReport
    /\ OtherIdle

RealtimeRest ==
    UNCHANGED <<setVars, stockCacheVars, ret, runVars, spc, params, stocks, candidates,
                tech_count, futures, results, collected, final_candidates,
                fetch_log, stats, returned, reported>>

RealtimeNext ==
    \/ RealtimeCheck /\ RealtimeRest
    \/ \E outcome \in BatchOutcomes : RealtimeBatch(outcome) /\ RealtimeRest
    \/ RealtimeReturn /\ RealtimeRest

SpecRealtime == RealtimeInit /\ [][RealtimeNext]_vars

----------------------------------------------------------------------------
(* The keys and the payload files of the two providers: TencentDataSource   *)
(* and EastMoneyDataSource have a CacheManager each, on a directory each.   *)
(* In this specification memory_cache, meta, meta_file and written hold one *)
(* value per manager, and files is keyed by the path of the file.           *)

Managers == {"tencent", "eastmoney"}

\* tencent.py line 23, eastmoney.py line 12: the default cache_dir
CacheDir(m) == "./stock_cache/" \o m

\* eastmoney.py line 34: f"fin_{symbol}"
FinKey(symbol) == "fin_" \o symbol

\* tencent.py line 30
StockListKey == "stock_list"

\* cache.py line 41-45: <cache_dir>/<key[:3]>/<key>.json
FilePath(cache_dir, key) ==
    cache_dir \o "/" \o (IF Len(key) >= 3 THEN SubSeq(key, 1, 3) ELSE key)
              \o "/" \o key \o ".json"

\* the identifiers the providers are called with: symbols of the stock list,
\* and texts that are made of pieces of the keys
Identifiers ==
    { "600000", "000001", "688001", "", "600", "_", "_600000", "rt_600000",
      "fin_600000", "fin", "stock_list", "ock_list", "list" }

\* CacheManager.set of the manager m
KeysSet(m, key, data, expire_hours) ==
    \E new_meta \in {DictSet(meta[m], key, [time |-> now, size |-> PayloadSize(data)])} :
       /\ memory_cache' = [memory_cache EXCEPT
                              ![m] = DictSet(@, key, CacheItem(data, now, expire_hours))]
       /\ files' = DictSet(files, FilePath(CacheDir(m), key), data)
       /\ meta' = [meta EXCEPT ![m] = new_meta]
       /\ meta_file' = [meta_file EXCEPT ![m] = SaveMeta(new_meta)]
       /\ subdirs' = subdirs \cup {CacheDir(m) \o "/" \o Prefix(key)}
       /\ written' = [written EXCEPT
                         ![m] = DictSet(@, key,
                                    [data |-> data, time |-> now, ttl |-> expire_hours,
                                     over |-> key \in DOMAIN @ /\ @[key].data # data])]
       /\ UNCHANGED now

\* tencent.py line 65: the quote of the identifier stocks[1] is cached
KeysSetQuote ==
    KeysSet("tencent", RtKey(stocks[1]), Quote("xAI", 10, 8, 6), QuoteExpireHours)

\* eastmoney.py line 87: the report of the identifier stocks[2] is cached
KeysSetReport ==
    KeysSet("eastmoney", FinKey(stocks[2]),
            FinancialData(stocks[2], << Report(2023, Num(30), Num(100)),
                                        Report(2022, Num(60), Num(40)),
                                        Report(2021, Num(90), Num(40)) >>),
            ReportExpireHours)

\* tencent.py line 45: the stock list is cached
KeysSetStockList ==
    KeysSet("tencent", StockListKey, StockList, DefaultExpireHours)

\* two managers on empty directories; the quote provider will be asked for
\* the identifier stocks[1], the report provider for stocks[2]
KeysInit ==
    /\ now = 0
    /\ memory_cache = [m \in Managers |-> EmptyDict]
    /\ files = EmptyDict
    /\ meta = [m \in Managers |-> LoadMeta(NoFile)]
    /\ meta_file = [m \in Managers |-> NoFile]
    /\ subdirs = {}
    /\ written = [m \in Managers |-> EmptyDict]
    /\ SetIdle
    /\ OtherIdle
    /\ spc = "idle"
    /\ params = [max_workers |-> 0]
    /\ \E a \in Identifiers, b \in Identifiers : stocks = <<a, b>>
    /\ data_map = EmptyDict
    /\ candidates = <<>>
    /\ tech_count = 0
    /\ futures = <<>>
    /\ results = <<>>
    /\ collected = {}
    /\ final_candidates = <<>>
    /\ fetch_log = EmptyDict
    /\ stats = EmptyDict
    /\ returned = <<>>
    /\ reported = NoReport

KeysNext ==
    \/ KeysSetQuote /\ UNCHANGED <<setVars, screenVars, otherVars>>
    \/ KeysSetReport /\ UNCHANGED <<setVars, screenVars, otherVars>>
    \/ KeysSetStockList /\ UNCHANGED <<setVars, screenVars, otherVars>>

SpecKeys == KeysInit /\ [][KeysNext]_vars

----------------------------------------------------------------------------
(* get_stats of the two caches: CacheManager (cache.py) with get, set and   *)
(* get_stats, and StockCache (stock_screener_workflow.py), which has a disk *)
(* tier only, with get, set, get_stats and clear_expired, each on its own   *)
(* directory, under one clock. ret is what the last call returned.          *)

\* the keys and the payload of the calls
StatsKeys == {"rt_600000", "fin_600000"}
StatsPayload == "{p1}"
StockCacheKeys == {"stock_600000"}

\* round(total_size / 1024 / 1024, 2), in hundredths
SizeMb(total_size) == (100 * total_size + 524288) \div 1048576

RECURSIVE SumOver(_, _)
SumOver(d, S) ==
    IF S = {} THEN 0
    ELSE LET k == CHOOSE x \in S : TRUE IN d[k] + SumOver(d, S \ {k})

\* cache.py line 78-85: the payload files are counted and their sizes added
CacheGetStatsResult ==
    [method |-> "get_stats",
     memory_items |-> Cardinality(DOMAIN memory_cache),
     disk_files |-> Cardinality(DOMAIN files),
     total_size_mb |-> SizeMb(SumOver([k \in DOMAIN files |-> Len(files[k])],
                                      DOMAIN files))]

\* get_stats that drops the expired items of the memory tier on its way
CacheGetStatsPurging ==
    /\ ret' = CacheGetStatsResult
    /\ memory_cache' = [k \in {x \in DOMAIN memory_cache : ~is_expired(memory_cache[x])} |->
                           memory_cache[k]]
    /\ UNCHANGED <<now, files, meta, meta_file, subdirs, written, stockCacheVars>>

\* CacheManager.get_stats
CacheGetStats ==
    /\ ret' = CacheGetStatsResult
    /\ UNCHANGED <<cacheVars, stockCacheVars>>

\* CacheManager.get and set, with what they return
StatsGet(key) ==
    /\ Get(key)
    /\ ret' = [method |-> "get", data |-> GetResult(key)]
    /\ UNCHANGED stockCacheVars

StatsSet(key, data, expire_hours) ==
    /\ Set(key, data, expire_hours)
    /\ ret' = [method |-> "set"]
    /\ UNCHANGED stockCacheVars

StatsRestart ==
    /\ Restart
    /\ ret' = NoCall
    /\ UNCHANGED stockCacheVars

\* stock_screener_workflow.py line 62, 92, 109: an index entry is expired
\* when it is older than CACHE_EXPIRE_HOURS
StockCacheExpired(info) == now - info.time > StockCacheExpireHours

\* StockCache.get, line 55-70
StockCacheGetResult(key) ==
    IF key \notin DOMAIN sc_meta THEN None
    ELSE IF StockCacheExpired(sc_meta[key]) THEN None
    ELSE IF key \notin DOMAIN sc_files THEN None
    ELSE sc_files[key]

StockCacheGet(key) ==
    /\ ret' = [method |-> "get", data |-> StockCacheGetResult(key)]
    /\ UNCHANGED <<cacheVars, stockCacheVars>>

\* StockCache.set, line 72-82
StockCacheSet(key, data) ==
    /\ sc_files' = DictSet(sc_files, key, data)
    /\ sc_meta' = DictSet(sc_meta, key, [time |-> now, size |-> Len(data)])
    /\ sc_meta_file' = DumpOf(DictSet(sc_meta, key, [time |-> now, size |-> Len(data)]))
    /\ ret' = [method |-> "set"]
    /\ UNCHANGED cacheVars

\* StockCache.get_stats, line 84-102
StockCacheGetStatsResult ==
    [method |-> "get_stats",
     valid |-> Cardinality({k \in DOMAIN sc_meta : ~StockCacheExpired(sc_meta[k])}),
     expired |-> Cardinality({k \in DOMAIN sc_meta : StockCacheExpired(sc_meta[k])}),
     total_size_mb |-> SizeMb(SumOver([k \in DOMAIN sc_meta |-> sc_meta[k].size],
                                      DOMAIN sc_meta))]

StockCacheGetStats ==
    /\ ret' = StockCacheGetStatsResult
    /\ UNCHANGED <<cacheVars, stockCacheVars>>

\* clear_expired that unlinks the payload files of the expired entries and
\* leaves the entries in the index
StockCacheClearFilesOnly ==
    \E expired_keys \in {{k \in DOMAIN sc_meta : StockCacheExpired(sc_meta[k])}} :
       /\ sc_files' = [k \in DOMAIN sc_files \ expired_keys |-> sc_files[k]]
       /\ sc_meta_file' = DumpOf(sc_meta)
       /\ ret' = [method |-> "clear_expired", count |-> Cardinality(expired_keys)]
       /\ UNCHANGED <<cacheVars, sc_meta>>

\* StockCache.clear_expired, line 104-119
StockCacheClearExpired ==
    \E expired_keys \in {{k \in DOMAIN sc_meta : StockCacheExpired(sc_meta[k])}} :
       /\ sc_files' = [k \in DOMAIN sc_files \ expired_keys |-> sc_files[k]]
       /\ sc_meta' = [k \in DOMAIN sc_meta \ expired_keys |-> sc_meta[k]]
       /\ sc_meta_file' = DumpOf([k \in DOMAIN sc_meta \ expired_keys |-> sc_meta[k]])
       /\ ret' = [method |-> "clear_expired", count |-> Cardinality(expired_keys)]
       /\ UNCHANGED cacheVars

\* a new StockCache on the same directory
StockCacheRestart ==
    /\ sc_meta' = LoadMeta(sc_meta_file)
    /\ ret' = NoCall
    /\ UNCHANGED <<cacheVars, sc_files, sc_meta_file>>

StatsTick ==
    /\ Tick
    /\ UNCHANGED <<stockCacheVars, ret>>

StatsInit == CacheInit /\ SetIdle /\ ScreenIdle /\ OtherIdle

StatsNext ==
    \/ \E key \in StatsKeys : StatsGet(key) /\ UNCHANGED <<setVars, screenVars, rtVars, runVars>>
    \/ \E key \in StatsKeys :
          StatsSet(key, StatsPayload, QuoteExpireHours)
             /\ UNCHANGED <<setVars, screenVars, rtVars, runVars>>
    \/ CacheGetStats /\ UNCHANGED <<setVars, screenVars, rtVars, runVars>>
    \/ StatsRestart /\ UNCHANGED <<setVars, screenVars, rtVars, runVars>>
    \/ \E key \in StockCacheKeys : StockCacheGet(key) /\ UNCHANGED <<setVars, screenVars, rtVars, runVars>>
    \/ \E key \in StockCacheKeys :
          StockCacheSet(key, StatsPayload) /\ UNCHANGED <<setVars, screenVars, rtVars, runVars>>
    \/ StockCacheGetStats /\ UNCHANGED <<setVars, screenVars, rtVars, runVars>>
    \/ StockCacheClearExpired /\ UNCHANGED <<setVars, screenVars, rtVars, runVars>>
    \/ StockCacheRestart /\ UNCHANGED <<setVars, screenVars, rtVars, runVars>>
    \/ StatsTick /\ UNCHANGED <<setVars, screenVars, rtVars, runVars>>

SpecStats == StatsInit /\ [][StatsNext]_vars

----------------------------------------------------------------------------
(* StockCache alone, with several keys: entries of different ages are in    *)
(* the index when clear_expired is called.                                  *)

ClearKeys == {"stock_600000", "stock_600001"}

ClearNext ==
    \/ \E key \in ClearKeys : StockCacheGet(key) /\ UNCHANGED <<setVars, screenVars, rtVars, runVars>>
    \/ \E key \in ClearKeys :
          StockCacheSet(key, StatsPayload) /\ UNCHANGED <<setVars, screenVars, rtVars, runVars>>
    \/ StockCacheClearExpired /\ UNCHANGED <<setVars, screenVars, rtVars, runVars>>
    \/ StockCacheRestart /\ UNCHANGED <<setVars, screenVars, rtVars, runVars>>
    \/ StatsTick /\ UNCHANGED <<setVars, screenVars, rtVars, runVars>>

SpecClear == StatsInit /\ [][ClearNext]_vars

----------------------------------------------------------------------------
(* The two providers run after run, as screen calls them: get_realtime_data  *)
(* for the stock list (engine.py line 52), then get_financial_data for a     *)
(* symbol (eastmoney.py line 34-93), statement by statement. Between two     *)
(* runs time passes, and the process ends or goes on. The first run finds    *)
(* the caches empty.                                                         *)

\* eastmoney.py line 34-37: the cache is asked; a report found is returned
FinGet ==
    \E key \in {FinKey(stocks[1])} :
       /\ rpc = "returned"
       /\ fpc = "idle"
       /\ memory_cache' = GetMemory(key)
       /\ subdirs' = GetSubdirs(key)
       /\ IF CacheHit(key)
          THEN fin_ret' = GetResult(key) /\ fpc' = "returned"
          ELSE fin_ret' = fin_ret /\ fpc' = "fetch"
       /\ UNCHANGED <<now, files, meta, meta_file, written, fin_sent, calls>>

\* line 58-93: the one request of the call; its result is cached and
\* returned, a failure or an answer without rows returns None
FinFetch(financial_data) ==
    /\ fpc = "fetch"
    /\ fin_sent' = fin_sent + 1
    /\ fin_ret' = financial_data
    /\ fpc' = "returned"
    /\ IF financial_data = NoFinancialData
       THEN UNCHANGED <<memory_cache, files, meta, meta_file, subdirs, written>>
       ELSE SetAfterMiss(FinKey(stocks[1]), financial_data, ReportExpireHours)
    /\ UNCHANGED <<now, calls>>

\* the hours between two runs: none, more than the expire_hours of a quote,
\* more than the 24 hours of the disk tier
RunGaps == {0, QuoteExpireHours + 1, DiskExpireHours + 1}

\* the run is over; the next one begins hours later, in the same process or
\* in a new one (CacheManager.__init__)
NextRun(hours, restarted) ==
    /\ fpc = "returned"
    /\ Len(calls) < MaxRuns - 1
    /\ calls' = Append(calls, [time |-> now, quotes |-> data_map, report |-> fin_ret,
                               written |-> written])
    /\ now' = now + hours
    /\ memory_cache' = IF restarted THEN EmptyDict ELSE memory_cache
    /\ meta' = IF restarted THEN LoadMeta(meta_file) ELSE meta
    /\ rpc' = "idle"
    /\ to_fetch' = <<>>
    /\ rt_results' = EmptyDict
    /\ requests' = <<>>
    /\ answers' = <<>>
    /\ data_map' = EmptyDict
    /\ fpc' = "idle"
    /\ fin_sent' = 0
    /\ fin_ret' = NoCall
    /\ UNCHANGED <<files, meta_file, subdirs, written>>

\* the lengths of the stock list
RunSizes == {1, BatchSize + 1}

RunsInit ==
    /\ CacheInit
    /\ SetIdle
    /\ OtherIdle
    /\ spc = "stock_list"
    /\ params \in {p \in ScreenParams : p.max_workers = 1 /\ p.growth_min <= p.growth_max}
    /\ \E n \in RunSizes : stocks = [i \in 1..n |-> Symbol(i)]
    /\ data_map = EmptyDict
    /\ candidates = <<>>
    /\ tech_count = 0
    /\ futures = <<>>
    /\ results = <<>>
    /\ collected = {}
    /\ final_candidates = <<>>
    /\ fetch_log = EmptyDict
    /\ stats = EmptyDict
    /\ returned = <<>>
    /\ reported = NoReport

RunsRest ==
    UNCHANGED <<setVars, stockCacheVars, ret, spc, params, stocks, candidates,
                tech_count, futures, results, collected, final_candidates,
                fetch_log, stats, returned, reported>>

\* the steps of the providers
RunsSteps ==
    \/ RealtimeCheck /\ RealtimeRest
    \/ \E outcome \in BatchOutcomes : RealtimeBatch(outcome) /\ RealtimeRest
    \/ RealtimeReturn /\ RealtimeRest
    \/ FinGet /\ RunsRest /\ UNCHANGED <<rtVars, data_map>>
    \/ \E financial_data \in FinancialResults(stocks[1]) :
          FinFetch(financial_data) /\ RunsRest /\ UNCHANGED <<rtVars, data_map>>

RunsNext ==
    \/ RunsSteps
    \/ \E hours \in RunGaps, restarted \in BOOLEAN : NextRun(hours, restarted) /\ RunsRest

SpecRuns == RunsInit /\ [][RunsNext]_vars

\* one call of each provider, for a stock list that is not empty, over a cache
\* that holds some of the quotes
CallsInit == RealtimeInit /\ stocks # <<>>

\* every call goes on to its end: each request has a timeout (tencent.py line
\* 80, eastmoney.py line 59)
SpecCalls == CallsInit /\ [][RunsSteps]_vars /\ WF_vars(RunsSteps)

----------------------------------------------------------------------------
(* The claims about the cache, under Spec *)

\* the TTL of the last set of key has lapsed
Lapsed(key) ==
    key \in DOMAIN written /\ now - written[key].time > written[key].ttl

\* this is a CacheManager just opened on the directory: its memory tier is
\* empty and its index is the one on disk
FreshManager == memory_cache = EmptyDict /\ meta = LoadMeta(meta_file)

\* C1: get never returns a payload whose TTL has lapsed: once t - t0 > T,
\* get(key) returns None, from the memory tier or from the disk tier.
C1_NeverReturnsLapsed ==
    \A key \in Keys : Lapsed(key) => GetResult(key) = None

\* C2: for every entry written with a TTL the providers use, get returns the
\* payload if and only if now - createdAt <= ttl, also in a fresh manager.
C2_TtlInvariant ==
    \A key \in DOMAIN written :
        written[key].ttl \in {QuoteExpireHours, ReportExpireHours, DefaultExpireHours}
        => ((GetResult(key) = written[key].data) <=> ~Lapsed(key))

\* C3: an entry written with ttl = 0 is expired at every strictly later time.
C3_ZeroTtlExpired ==
    \A key \in DOMAIN written :
        (written[key].ttl = 0 /\ now > written[key].time)
        => GetResult(key) = None

\* C4: after set(key, p1) and set(key, p2) with p1 # p2, every get(key) while
\* the entry is unexpired returns p2.
C4_OverwriteReturnsLatest ==
    \A key \in DOMAIN written :
        (written[key].over /\ ~Lapsed(key))
        => GetResult(key) = written[key].data

\* What does hold of an overwrite: each tier holds the last payload set and
\* its time only, and get returns that payload or None, never an older one.
LatestPayloadOnly ==
    \A key \in DOMAIN written :
        /\ GetResult(key) \in {None, written[key].data}
        /\ key \in DOMAIN memory_cache => memory_cache[key].data = written[key].data
        /\ files[key] = written[key].data
        /\ meta[key].time = written[key].time
        /\ meta_file.idx[key].time = written[key].time

\* C5: what set wrote is durable: the payload file and the index entry are on
\* disk, and a new CacheManager on the directory returns the payload from
\* get(key) while the entry is unexpired.
C5_SetIsDurable ==
    \A key \in DOMAIN written :
        /\ key \in DOMAIN files /\ files[key] = written[key].data
        /\ meta_file.ok /\ key \in DOMAIN meta_file.idx
        /\ (FreshManager /\ ~Lapsed(key)) => GetResult(key) = written[key].data

----------------------------------------------------------------------------
(* The claims about concurrent set, under SpecSet *)

\* worker w is inside the update of the metadata index: it has begun line 75
\* of set and has not left _save_meta
InMetaUpdate(w) == wpc[w] \in {"save_open", "dump", "dumping", "close"}

AllReturned == \A w \in Workers : wpc[w] \in {"returned", "returned_none", "failed"}

\* C6: no two workers are inside the metadata-index update at once.
C6_MetaUpdateMutex ==
    Cardinality({w \in Workers : InMetaUpdate(w)}) <= 1

\* C7: once all concurrent set calls on distinct keys have returned, the memory
\* tier and cache_meta.json hold an entry for every key set, and no call failed.
C7_NoLostUpdate ==
    AllReturned =>
        /\ \A w \in Workers : wpc[w] # "failed"
        /\ \A key \in DOMAIN written :
              /\ key \in DOMAIN memory_cache
              /\ meta_file.ok
              /\ key \in DOMAIN meta_file.idx

----------------------------------------------------------------------------
(* The claims about screen, under SpecScreen *)

\* the cheap filter has run over the whole data_map
CheapStageDone ==
    spc \in {"submit", "as_completed", "raising", "raised", "sorted", "returned"}

\* C8: the report provider is asked only for symbols that have a quote and pass
\* all four cheap-filter predicates, and only after the cheap stage is done.
C8_StageOrdering ==
    \A symbol \in DOMAIN fetch_log :
        /\ CheapStageDone
        /\ symbol \in DOMAIN data_map
        /\ data_map[symbol].price > 0
        /\ data_map[symbol].pe > 0
        /\ data_map[symbol].week_52_low > 0
        /\ data_map[symbol].pe <= params.max_pe
        /\ \E kw \in TECH_KEYWORDS : Contains(data_map[symbol].name, kw)
        /\ data_map[symbol].price < data_map[symbol].week_52_low * params.price_ratio

\* a run has returned in which one symbol had no quote, one had a quote at the
\* price threshold (price = low * ratio), and one was fetched
C8_Witness ==
    /\ spc = "returned"
    /\ \E symbol \in DOMAIN fetch_log : fetch_log[symbol] > 0
    /\ \E i \in 1..Len(stocks) : stocks[i] \notin DOMAIN data_map
    /\ \E symbol \in DOMAIN data_map :
          /\ symbol \notin DOMAIN fetch_log
          /\ data_map[symbol].price = data_map[symbol].week_52_low * params.price_ratio

\* C9: at most max_workers calls of _check_single_stock are outstanding.
C9_BoundedConcurrency ==
    Cardinality({i \in 1..Len(futures) : futures[i] = "running"}) <= params.max_workers

\* max_workers >= 2 fetches are outstanding and a further candidate waits
C9_Witness ==
    /\ params.max_workers >= 2
    /\ Cardinality({i \in 1..Len(futures) : futures[i] = "running"}) = params.max_workers
    /\ \E i \in 1..Len(futures) : futures[i] = "queued"

\* C10: the list screen returns is sorted ascending by pe, ties by symbol.
C10_RankedByPeThenSymbol ==
    spc = "returned" =>
        \A i, j \in 1..Len(returned) :
            i < j =>
                \/ returned[i].pe < returned[j].pe
                \/ /\ returned[i].pe = returned[j].pe
                   /\ SymbolIndex(returned[i].symbol) < SymbolIndex(returned[j].symbol)

\* the run was ended by an exception
Aborted == spc \in {"raising", "raised"}

\* future i has a result that is a tuple, not an exception
HasTuple(i) == results[i] \notin {NoResult, Raised}

Symbols(list) == {list[i].symbol : i \in 1..Len(list)}

\* C12: no failure of the unit of work of one candidate ends the run: screen
\* is never left by an exception, and a run that returns has set the stats.
C12_FailuresAbsorbed ==
    /\ ~Aborted
    /\ spc = "returned" => stats # EmptyDict

\* C13: a candidate for which the report provider returned None is not in the
\* result; its absence does not end the run (the run goes on, and ends by an
\* exception only if some worker raised one); every candidate found valid is
\* in the ranked list; the stats count the candidate in after_preliminary.
C13_AbsenceNonFatal ==
    \A i \in 1..Len(results) :
        (HasTuple(i) /\ results[i].fin_data = NoFinancialData) =>
            /\ candidates[i].symbol \notin Symbols(final_candidates)
            /\ candidates[i].symbol \notin Symbols(returned)
            /\ Aborted => \E j \in collected : results[j] = Raised
            /\ spc \notin {"returned", "raised"} => ENABLED ScreenNext
            /\ spc \in {"sorted", "returned"} =>
                  /\ stats.after_preliminary = Len(candidates)
                  /\ \A j \in 1..Len(results) :
                        (HasTuple(j) /\ results[j].is_valid) =>
                            candidates[j].symbol \in Symbols(final_candidates)

\* a run has returned a candidate while the report provider gave None for
\* another
C13_Witness ==
    /\ spc = "returned"
    /\ returned # <<>>
    /\ \E i \in 1..Len(results) : HasTuple(i) /\ results[i].fin_data = NoFinancialData

\* C14: when get_realtime_data returned the empty mapping, no future is
\* submitted, the report provider is never asked, and screen returns [].
C14_NoQuotesNoFetch ==
    (data_map = EmptyDict /\ spc \notin {"start", "stock_list"}) =>
        /\ candidates = <<>>
        /\ futures = <<>>
        /\ fetch_log = EmptyDict
        /\ ~Aborted
        /\ spc = "returned" => returned = <<>>

\* a run with a stock list and no quote at all has returned
C14_Witness ==
    /\ spc = "returned"
    /\ stocks # <<>>
    /\ data_map = EmptyDict
    /\ returned = <<>>

\* C15: a run that got no quote at all does not end as a normal return.
C15_NoQuotesIsFatal ==
    spc = "returned" => data_map # EmptyDict

\* C16: a call with growth_min > growth_max is rejected before the quote
\* provider or the report provider is called.
C16_InvalidRangeRejected ==
    params.growth_min > params.growth_max =>
        /\ spc \in {"start", "stock_list"}
        /\ fetch_log = EmptyDict

----------------------------------------------------------------------------
(* The claims about the cheap filter, under SpecFilter *)

\* C17: a symbol with a quote is a candidate if and only if (a) price > 0,
\* pe > 0 and 52-week low > 0, (b) pe <= max_pe, (c) its name contains a
\* keyword, (d) price < week_52_low * price_ratio, strictly.
C17_CheapFilterExact ==
    spc = "submit" =>
        /\ Symbols(candidates) \subseteq DOMAIN data_map
        /\ \A symbol \in DOMAIN data_map :
              symbol \in Symbols(candidates) <=>
                  /\ data_map[symbol].price > 0
                  /\ data_map[symbol].pe > 0
                  /\ data_map[symbol].week_52_low > 0
                  /\ data_map[symbol].pe <= params.max_pe
                  /\ \E kw \in TECH_KEYWORDS : Contains(data_map[symbol].name, kw)
                  /\ data_map[symbol].price
                        < data_map[symbol].week_52_low * params.price_ratio

\* the filter has rejected a quote of a keyword name whose pe is max_pe and
\* whose price is the threshold: price = week_52_low * price_ratio
C17_Witness ==
    /\ spc = "submit"
    /\ candidates = <<>>
    /\ \E symbol \in DOMAIN data_map :
          /\ is_tech_stock(data_map[symbol].name)
          /\ data_map[symbol].pe = params.max_pe
          /\ data_map[symbol].price = data_map[symbol].week_52_low * params.price_ratio

----------------------------------------------------------------------------
(* The claims about the providers, under SpecProviders *)

\* a growth value with null (and anything that is no number) counted as 0
Growth0(v) == IF IsNum(v) THEN v.num ELSE 0

\* the average of the three values lies in [min_growth, max_growth]
Average3InRange(v1, v2, v3, min_growth, max_growth) ==
    /\ 3 * min_growth <= Growth0(v1) + Growth0(v2) + Growth0(v3)
    /\ Growth0(v1) + Growth0(v2) + Growth0(v3) <= 3 * max_growth

\* C18: the growth check passes a candidate if and only if its report has 3
\* annual records and the averages of their revenue growths and of their
\* profit growths both lie in [growth_min, growth_max], bounds included, a
\* null growth counted as 0.
C18_GrowthCheckExact ==
    HasTuple(1) =>
        LET fd == results[1].fin_data
        IN results[1].is_valid <=>
              /\ fd # NoFinancialData
              /\ Len(fd.reports) = 3
              /\ Average3InRange(fd.reports[1].revenue_growth,
                                 fd.reports[2].revenue_growth,
                                 fd.reports[3].revenue_growth,
                                 params.growth_min, params.growth_max)
              /\ Average3InRange(fd.reports[1].profit_growth,
                                 fd.reports[2].profit_growth,
                                 fd.reports[3].profit_growth,
                                 params.growth_min, params.growth_max)

\* the check has passed a report with a null growth whose revenue average is
\* growth_min and whose profit average is growth_max
C18_Witness ==
    /\ HasTuple(1)
    /\ results[1].is_valid
    /\ \E k \in 1..3 : results[1].fin_data.reports[k].revenue_growth = Null
    /\ results[1].fin_data.sum_revenue_growth = 3 * params.growth_min
    /\ results[1].fin_data.sum_profit_growth = 3 * params.growth_max

\* the reports in the cache: the payloads of the files and of the memory tier
\* under the keys fin_<symbol>
CachedReports ==
    {files[key] : key \in {k \in DOMAIN files : SubSeq(k, 1, 4) = "fin_"}}
        \cup {memory_cache[key].data :
                 key \in {k \in DOMAIN memory_cache : SubSeq(k, 1, 4) = "fin_"}}

CachedQuotes ==
    {files[key] : key \in {k \in DOMAIN files : SubSeq(k, 1, 3) = "rt_"}}
        \cup {memory_cache[key].data :
                 key \in {k \in DOMAIN memory_cache : SubSeq(k, 1, 3) = "rt_"}}

\* C19: a report holds at most 3 annual records, and the growth check passes
\* it only if it has exactly 3 records in descending year order.
C19_CompleteReportsOnly ==
    /\ \A d \in CachedReports : Len(d.reports) <= 3
    /\ (HasTuple(1) /\ results[1].is_valid) =>
          /\ Len(results[1].fin_data.reports) = 3
          /\ results[1].fin_data.reports[1].year >= results[1].fin_data.reports[2].year
          /\ results[1].fin_data.reports[2].year >= results[1].fin_data.reports[3].year

\* every growth of the report is a number or null
WellFormedReport(d) ==
    \A k \in 1..Len(d.reports) :
        /\ IsNum(OrZero(d.reports[k].revenue_growth))
        /\ IsNum(OrZero(d.reports[k].profit_growth))

\* C20: every cached quote has a name and a price > 0, every cached report is
\* well formed, and no answer of the upstream comes back as an error.
C20_OnlyValidCached ==
    /\ \A q \in CachedQuotes : q.name # "" /\ q.price > 0
    /\ \A d \in CachedReports : WellFormedReport(d)
    /\ results[1] # Raised

\* C36: a key that both tiers hold unexpired has in the memory tier the
\* payload that set wrote last to its file, and get returns that payload:
\* nothing a caller does with a payload it got or stored changes it.
C36_TiersCoherent ==
    \A key \in DOMAIN memory_cache \cap DOMAIN files :
        (GetMemoryHit(key) /\ GetDiskHit(key)) =>
            /\ memory_cache[key].data = files[key]
            /\ files[key] = written[key].data
            /\ GetResult(key) = written[key].data

----------------------------------------------------------------------------
(* The claims about the end of screen, under SpecRank *)

\* the symbols that survived both stages: they have a quote that passes the
\* four cheap predicates, and their growth check came back valid
Survivors ==
    {symbol \in DOMAIN data_map :
        /\ PassesCheapFilter(data_map[symbol], params.max_pe, params.price_ratio)
        /\ \E i \in 1..Len(results) :
              /\ results[i] \notin {NoResult, Raised}
              /\ results[i].candidate.symbol = symbol
              /\ results[i].is_valid}

\* list is ascending in pe and holds no symbol twice
RankedByPe(list) ==
    \A i, j \in 1..Len(list) :
        i < j => (list[i].pe <= list[j].pe /\ list[i].symbol # list[j].symbol)

\* C11: what screen returns, and what it hands to the report generator, are
\* the first min(TopN, k) elements of the ranked list of the k survivors of
\* both stages: at most TopN elements, no symbol twice, survivors only.
C11_Truncation ==
    spc = "returned" =>
        LET k == Cardinality(Survivors)
        IN /\ Len(returned) <= TopN
           /\ Len(returned) = (IF k < TopN THEN k ELSE TopN)
           /\ RankedByPe(final_candidates)
           /\ {final_candidates[i].symbol : i \in 1..Len(final_candidates)} = Survivors
           /\ returned = SubSeq(final_candidates, 1, Len(returned))
           /\ \A i \in 1..Len(returned) : returned[i].symbol \in Survivors
           /\ reported # NoReport => reported.results = returned

\* a run has returned TopN of more than TopN survivors, one candidate having
\* failed the growth check
C11_Witness ==
    /\ spc = "returned"
    /\ Cardinality(Survivors) > TopN
    /\ Len(returned) = TopN
    /\ reported # NoReport
    /\ \E i \in 1..Len(results) : ~results[i].is_valid

----------------------------------------------------------------------------
(* More claims about the cache, under Spec *)

\* C26: the durable record keeps the TTL and the creation time of its entry:
\* an item of the memory tier, also one that get has loaded from the disk
\* tier, has the creation time and the expire_hours of the set that wrote
\* the entry.
C26_DurableRecordKeepsTtl ==
    \A key \in DOMAIN memory_cache :
        key \in DOMAIN written =>
           /\ memory_cache[key].data = written[key].data
           /\ memory_cache[key].timestamp = written[key].time
           /\ memory_cache[key].expire_hours = written[key].ttl

----------------------------------------------------------------------------
(* The claim about get_stats, under SpecStats *)

\* the step is a call of get_stats of one of the two caches
IsGetStats == ret' # ret /\ ret'.method = "get_stats"

\* C27: a call of get_stats changes neither the memory tier nor the payload
\* files nor the index, of either cache, and every get answers after it as
\* it did before it.
C27_StatsReadOnly ==
    [][IsGetStats =>
          /\ UNCHANGED <<memory_cache, files, meta, meta_file, subdirs>>
          /\ UNCHANGED <<sc_files, sc_meta, sc_meta_file>>
          /\ \A key \in StatsKeys : GetResult(key)' = GetResult(key)
          /\ \A key \in StockCacheKeys :
                 StockCacheGetResult(key)' = StockCacheGetResult(key)]_vars

\* get_stats of the CacheManager has returned for a store that holds payload
\* files and an expired item in its memory tier
C27_Witness ==
    /\ ret = CacheGetStatsResult
    /\ ret.disk_files >= 1
    /\ \E key \in DOMAIN memory_cache : is_expired(memory_cache[key])

----------------------------------------------------------------------------
(* The claim about the effects of get, under SpecStats *)

\* the step is a call of get
IsGet == ret'.method = "get" /\ now' = now

\* get writes and deletes no payload file and no entry of the index, in
\* self.meta or in cache_meta.json; in the memory tier it drops expired items
\* and puts in items made of a payload file and the time of its index entry
GetKeepsEntries ==
    IsGet =>
        /\ UNCHANGED <<files, meta, meta_file, written>>
        /\ \A k \in DOMAIN memory_cache \ DOMAIN memory_cache' :
              is_expired(memory_cache[k])
        /\ \A k \in DOMAIN memory_cache' :
              \/ k \in DOMAIN memory_cache /\ memory_cache'[k] = memory_cache[k]
              \/ /\ k \in DOMAIN files /\ k \in DOMAIN meta
                 /\ memory_cache'[k].data = files[k]
                 /\ memory_cache'[k].timestamp = meta[k].time

\* C37: a call of get, hit or miss, writes and deletes no payload file and no
\* index entry, and has no effect outside the memory tier, where it drops an
\* expired item or puts in the item of a payload file with the time the
\* payload was written at.
C37_GetTouchesMemoryOnly ==
    [][GetKeepsEntries /\ (IsGet => subdirs' = subdirs)]_vars

----------------------------------------------------------------------------
(* The claim about StockCache.clear_expired, under SpecClear *)

\* the step is a call of clear_expired
IsClearExpired == ret'.method = "clear_expired" /\ now' = now

\* the entries of the index that a call of clear_expired would remove
ExpiredEntries == {k \in DOMAIN sc_meta : StockCacheExpired(sc_meta[k])}

\* what clear_expired has to do
ClearedExactly ==
    IsClearExpired =>
        /\ ExpiredEntries' = {}
        /\ \A k \in DOMAIN sc_meta \ ExpiredEntries :
              /\ k \in DOMAIN sc_meta'
              /\ sc_meta'[k] = sc_meta[k]
              /\ StockCacheGetResult(k)' = sc_files[k]
        /\ ret'.count = Cardinality(DOMAIN sc_meta \ DOMAIN sc_meta')
        /\ ret'.count = Cardinality(ExpiredEntries)
        /\ sc_meta_file' = DumpOf(sc_meta')
        /\ DOMAIN sc_files' = DOMAIN sc_files \ ExpiredEntries

\* C33: after clear_expired the index holds no expired entry, every entry
\* that was unexpired before the call is still in it and get returns its
\* payload, the number returned is the number of entries removed, and a
\* second call right after would find nothing to remove and return 0.
C33_ClearExpired ==
    [][ClearedExactly]_vars

\* clear_expired has removed one entry and kept another, which get returns
C33_Witness ==
    /\ ret = [method |-> "clear_expired", count |-> 1]
    /\ \E k \in DOMAIN sc_meta : StockCacheGetResult(k) # None

----------------------------------------------------------------------------
(* More claims about screen, under SpecScreen *)

\* C23: whatever the order in which the workers complete, the growth fields
\* of a candidate in the result list are those of the report of its own
\* symbol, and its quote fields are those of its own quote.
C23_ResultReassociated ==
    \A k \in 1..Len(final_candidates) :
        /\ final_candidates[k].symbol \in DOMAIN data_map
        /\ Candidate(final_candidates[k].symbol, data_map[final_candidates[k].symbol])
              = [f \in {"symbol", "name", "price", "pe", "week_52_low"} |->
                    final_candidates[k][f]]
        /\ \E reports \in UpstreamReports(final_candidates[k].symbol) :
              /\ final_candidates[k].revenue_growth =
                     [j \in 1..3 |-> reports[j].revenue_growth]
              /\ final_candidates[k].profit_growth =
                     [j \in 1..3 |-> reports[j].profit_growth]
              /\ ~GrowthRaises(reports)
              /\ final_candidates[k].sum_revenue_growth = SumRevenueGrowth(reports)
              /\ final_candidates[k].sum_profit_growth = SumProfitGrowth(reports)

\* two candidates were enriched, the one submitted later first
C23_Witness ==
    /\ spc = "as_completed"
    /\ Len(final_candidates) >= 2
    /\ SymbolIndexOf(final_candidates[1].symbol) > SymbolIndexOf(final_candidates[2].symbol)
    /\ final_candidates[1].sum_revenue_growth # final_candidates[2].sum_revenue_growth

\* C24: a run that no exception has ended goes through its stages in their
\* order and ends with its final list, empty or not, and its stats handed to
\* the report generator.
C24_PipelineReachesReported ==
    /\ spc \in {"quotes", "submit", "as_completed", "sorted", "returned"} =>
          stocks = StockList
    /\ spc \in {"submit", "as_completed", "sorted", "returned"} =>
          candidates = CheapCandidates(data_map, params.max_pe, params.price_ratio)
    /\ spc \in {"sorted", "returned"} =>
          /\ collected = 1..Len(candidates)
          /\ stats # EmptyDict
    /\ spc = "returned" =>
          /\ reported # NoReport
          /\ reported.results = returned
          /\ reported.stats = stats

\* C28: after a run the tech_stocks counter of the stats is the number of
\* symbols with valid quote data whose name holds a keyword of the category.
C28_CategoryCounter ==
    spc \in {"sorted", "returned"} =>
       stats.tech_stocks =
          Cardinality({symbol \in DOMAIN data_map : is_tech_stock(data_map[symbol].name)})

\* C29: the sort of line 122 begins only when every unit of work submitted to
\* the pool has ended, by a return or by an exception: every candidate has its
\* future, no future is queued or running when the list is sorted, and every
\* candidate was run, the slow and the failed ones and their siblings alike.
\* A run that an exception ends has also let every sibling run to its end.
C29_StageBarrier ==
    spc \in {"sorted", "returned", "raised"} =>
        /\ Len(futures) = Len(candidates)
        /\ \A i \in 1..Len(futures) :
              /\ futures[i] = "finished"
              /\ results[i] # NoResult
              /\ candidates[i].symbol \in DOMAIN fetch_log
        /\ spc # "raised" => collected = 1..Len(futures)

\* a sorted list of a run with several units of work, one of which failed and
\* another of which passed
C29_Witness ==
    /\ spc = "sorted"
    /\ Len(futures) >= 2
    /\ \E i \in 1..Len(futures) : ~Accepted(results[i])
    /\ final_candidates # <<>>

\* C30, as stated: during the expensive stage nothing is merged into the
\* result list while a worker of the pool is still queued or running, so a
\* list that holds a merged candidate means a drained pool.
C30_MergeAfterDrain ==
    spc = "as_completed" /\ final_candidates # <<>> =>
        \A i \in 1..Len(futures) : futures[i] = "finished"

\* what a step of the expensive stage does to the result list
MergedOnlyByCollect ==
    spc \in {"submit", "as_completed", "raising"} /\ spc' # "sorted" =>
        /\ futures' # futures => final_candidates' = final_candidates
        /\ final_candidates' # final_candidates =>
              \E i \in 1..Len(futures) :
                 /\ spc = "as_completed"
                 /\ futures[i] = "finished"
                 /\ i \notin collected
                 /\ collected' = collected \cup {i}
                 /\ Accepted(results[i])
                 /\ final_candidates' =
                       Append(final_candidates, Enriched(results[i]))
                 /\ results' = results

\* C30, amended: during the expensive stage the result list is changed only
\* by the thread that runs screen, one unit of work at a time: by the step
\* that takes a finished future from as_completed and appends its enriched
\* candidate, whatever the other workers are doing. A step of a worker (a
\* future beginning or ending) leaves the result list alone.
C30_MergedByCollector ==
    [][MergedOnlyByCollect]_vars

\* a candidate has been merged while another worker is still running
C30_Witness ==
    /\ spc = "as_completed"
    /\ final_candidates # <<>>
    /\ \E i \in 1..Len(futures) : futures[i] = "running"

\* C34: after every completed run the stats descend with the stages:
\* total_scanned >= valid_data >= tech_stocks >= after_preliminary >=
\* final_selected >= the length of the returned list; after_preliminary is
\* the number of candidates submitted to the pool and final_selected the
\* number of them that passed the growth check.
C34_StatsDescend ==
    spc = "returned" =>
        /\ stats.total_scanned >= stats.valid_data
        /\ stats.valid_data >= stats.tech_stocks
        /\ stats.tech_stocks >= stats.after_preliminary
        /\ stats.after_preliminary >= stats.final_selected
        /\ stats.final_selected >= Len(returned)
        /\ stats.after_preliminary = Len(futures)
        /\ stats.final_selected =
              Cardinality({i \in 1..Len(results) : Accepted(results[i])})

\* a completed run in which every stage has dropped a symbol
C34_Witness ==
    /\ spc = "returned"
    /\ stats.total_scanned > stats.valid_data
    /\ stats.valid_data > stats.after_preliminary
    /\ stats.after_preliminary > stats.final_selected
    /\ stats.tech_stocks >= 1

\* the symbols whose quotes pass the four tests of the cheap filter
CheapSurvivors ==
    {symbol \in DOMAIN data_map :
        PassesCheapFilter(data_map[symbol], params.max_pe, params.price_ratio)}

\* C35: the report provider is asked for the survivors of the cheap filter
\* and for nothing else, never twice for a symbol, and when the pool has shut
\* down it was asked once for every survivor, with one worker or with more.
C35_EvaluatedExactlyOnce ==
    /\ \A symbol \in DOMAIN fetch_log :
          fetch_log[symbol] = 1 /\ symbol \in CheapSurvivors
    /\ spc \in {"sorted", "returned", "raised"} =>
          /\ DOMAIN fetch_log = CheapSurvivors
          /\ Len(futures) = Cardinality(CheapSurvivors)

\* a run of two workers with three survivors has shut its pool down
C35_Witness ==
    /\ spc = "sorted"
    /\ params.max_workers > 1
    /\ Cardinality(CheapSurvivors) = NumSymbols
    /\ DOMAIN fetch_log = CheapSurvivors

----------------------------------------------------------------------------
(* The claims about get_realtime_data, under SpecRealtime *)

\* the symbols get_realtime_data was called with
Requested == {stocks[j] : j \in 1..Len(stocks)}

\* The cache had a quote to give for symbol s when get_realtime_data was
\* called: the earlier call has set its key (the last set of the key is that
\* one, or has replaced it), and get answers for a key of the earlier call
\* up to the hour DiskExpireHours (whether that is the TTL of the entry is
\* the matter of C1 and C2).
CachedAtCall(s) ==
    /\ RtKey(s) \in DOMAIN written
    /\ written[RtKey(s)].time = 0 \/ written[RtKey(s)].over
    /\ now <= DiskExpireHours

\* the codes of the symbols of the call for which the cache had no quote
MissingCodes == {Code(s) : s \in {x \in Requested : ~CachedAtCall(x)}}

\* the codes that were sent upstream, and the number of places they were
\* sent in
SentCodes == UNION {{requests[r][j] : j \in 1..Len(requests[r])} : r \in 1..Len(requests)}
RECURSIVE TotalLen(_)
TotalLen(seqs) == IF seqs = <<>> THEN 0 ELSE Len(Head(seqs)) + TotalLen(Tail(seqs))

\* the symbols for which some answer had a quote with a name and a price
FetchedValid ==
    {s \in UNION {DOMAIN answers[r] : r \in 1..Len(answers)} :
        \E r \in 1..Len(answers) :
            s \in DOMAIN answers[r] /\ ValidQuote(answers[r][s])}

\* C21: get_realtime_data sends no symbol upstream whose quote the cache
\* holds, sends every other symbol of the call in exactly one batch, sends at
\* most BatchSize symbols a batch, and returns the cached quotes and the
\* fetched quotes that have a name and a price.
C21_CacheFirstPartition ==
    /\ rpc \in {"fetch", "returned"} =>
          /\ \A r \in 1..Len(requests) : Len(requests[r]) <= BatchSize
          /\ SentCodes \subseteq MissingCodes
          /\ Cardinality(SentCodes) = TotalLen(requests)
    /\ rpc = "returned" =>
          /\ SentCodes = MissingCodes
          /\ DOMAIN data_map = {s \in Requested : CachedAtCall(s)} \cup FetchedValid
          /\ \A s \in DOMAIN data_map :
                 data_map[s] = IF s \in FetchedValid
                               THEN FreshQuote(SymbolIndexOf(s))
                               ELSE CachedQuote(SymbolIndexOf(s))

\* a call with cached and missing symbols that took more than one batch, a
\* full one among them, and got a quote without a price
C21_Witness ==
    /\ rpc = "returned"
    /\ Len(requests) >= 2
    /\ Len(requests[1]) = BatchSize
    /\ \E s \in Requested : CachedAtCall(s)
    /\ \E r \in 1..Len(answers), s \in Requested :
           s \in DOMAIN answers[r] /\ ~ValidQuote(answers[r][s])
    /\ FetchedValid # {}

\* C22: a batch for which _fetch_batch returns nothing (an error, a timeout)
\* leaves its symbols without data, and nothing else: the call goes on and
\* returns, with the cached quotes and with the quotes of the other batches,
\* which are cached as well.
C22_ChunkFailureIsolated ==
    /\ rpc \in {"idle", "fetch", "returned"}
    /\ rpc \in {"idle", "fetch"} => ENABLED RealtimeNext
    /\ rpc = "returned" =>
          /\ \A s \in Requested :
                 CachedAtCall(s) =>
                    s \in DOMAIN data_map /\ data_map[s] = CachedQuote(SymbolIndexOf(s))
          /\ \A r \in 1..Len(answers) :
                 IF answers[r] = EmptyDict
                 THEN \A j \in 1..Len(requests[r]) :
                         SymbolOfCode(requests[r][j]) \notin DOMAIN data_map
                 ELSE \A s \in DOMAIN answers[r] :
                         ValidQuote(answers[r][s]) =>
                            /\ s \in DOMAIN data_map
                            /\ data_map[s] = answers[r][s]
                            /\ CacheHit(RtKey(s))
                            /\ GetResult(RtKey(s)) = answers[r][s]

\* a call that has returned after a full batch failed, with cached quotes
\* and with the quotes of another batch
C22_Witness ==
    /\ rpc = "returned"
    /\ \E r \in 1..Len(answers) :
           answers[r] = EmptyDict /\ Len(requests[r]) = BatchSize
    /\ \E r \in 1..Len(answers), s \in DOMAIN data_map :
           s \in DOMAIN answers[r] /\ ValidQuote(answers[r][s])
    /\ \E s \in Requested : CachedAtCall(s)

----------------------------------------------------------------------------
(* The claim about the cache keys, under SpecKeys *)

\* C25: for all identifiers a and b the quote key of a, the report key of b
\* and the key of the stock list are three different keys with three
\* different payload files, and every payload file holds what was last set
\* under its own key.
C25_KeysNamespaced ==
    /\ \A a \in Identifiers, b \in Identifiers :
          /\ RtKey(a) # FinKey(b)
          /\ RtKey(a) # StockListKey
          /\ FinKey(b) # StockListKey
          /\ FilePath(CacheDir("tencent"), RtKey(a))
                # FilePath(CacheDir("eastmoney"), FinKey(b))
          /\ FilePath(CacheDir("tencent"), RtKey(a))
                # FilePath(CacheDir("tencent"), StockListKey)
          /\ FilePath(CacheDir("eastmoney"), FinKey(b))
                # FilePath(CacheDir("tencent"), StockListKey)
    /\ \A m \in Managers :
          \A key \in DOMAIN written[m] :
             /\ ~written[m][key].over
             /\ FilePath(CacheDir(m), key) \in DOMAIN files
             /\ files[FilePath(CacheDir(m), key)] = written[m][key].data
             /\ memory_cache[m][key].data = written[m][key].data

\* the quote and the report of one identifier and the stock list are cached
C25_Witness ==
    /\ stocks[1] = stocks[2]
    /\ RtKey(stocks[1]) \in DOMAIN written["tencent"]
    /\ FinKey(stocks[2]) \in DOMAIN written["eastmoney"]
    /\ StockListKey \in DOMAIN written["tencent"]
    /\ Cardinality(DOMAIN files) = 3

----------------------------------------------------------------------------
(* The claims about the upstream calls of the providers, under SpecCalls and
   SpecRuns *)

\* ceil(m / 100)
ChunksOf(m) == (m + BatchSize - 1) \div BatchSize

\* the upstream calls of the calls that are running or have just returned
UpstreamBounded ==
    /\ Len(requests) <= ChunksOf(Len(to_fetch))
    /\ Cardinality(SentCodes) = TotalLen(requests)
    /\ SentCodes \subseteq {Code(to_fetch[j]) : j \in 1..Len(to_fetch)}
    /\ fin_sent <= 1

\* C31: a call of get_realtime_data makes at most ceil(m / 100) upstream
\* calls for its m missing symbols and sends no symbol twice, a call of
\* get_financial_data makes at most one upstream call, and every call of
\* either returns.
C31_BoundedUpstreamWork ==
    /\ []UpstreamBounded
    /\ (rpc # "returned") ~> (rpc = "returned")
    /\ (fpc # "returned") ~> (fpc = "returned")

\* both providers have returned: the quote provider after two batches for
\* BatchSize + 1 missing symbols, the report provider after its request
C31_Witness ==
    /\ rpc = "returned"
    /\ Len(to_fetch) = BatchSize + 1
    /\ Len(requests) = 2
    /\ fpc = "returned"
    /\ fin_sent = 1

\* the run before this one
Prev == calls[Len(calls)]

\* the entry of key that the run before left in the cache has not reached
\* its expire_hours at the time of this run
FreshSince(key) ==
    /\ key \in DOMAIN Prev.written
    /\ now - Prev.written[key].time < Prev.written[key].ttl

\* the symbols for which the run before got a quote that is still fresh
FreshQuotes == {x \in DOMAIN Prev.quotes : FreshSince(RtKey(x))}

\* no symbol with a fresh quote is sent upstream again, and the call returns
\* the quote of the run before for it
QuotesShortCircuit ==
    (calls # <<>> /\ rpc # "idle") =>
        /\ {Code(x) : x \in FreshQuotes} \cap SentCodes = {}
        /\ \A x \in FreshQuotes :
              x \in DOMAIN rt_results /\ rt_results[x] = Prev.quotes[x]
        /\ rpc = "returned" =>
              \A x \in FreshQuotes : data_map[x] = Prev.quotes[x]

\* a report of the run before that is still fresh is not asked for again
ReportShortCircuit ==
    (calls # <<>> /\ Prev.report # NoFinancialData /\ FreshSince(FinKey(stocks[1]))) =>
        fin_sent = 0

\* C32: when a run has got a payload for a symbol, a later call made before
\* the expire_hours of the entry have passed, in the same process or in a
\* later one, returns the same quote without sending the symbol upstream,
\* and makes no upstream call for the report.
C32_CacheShortCircuit ==
    QuotesShortCircuit /\ ReportShortCircuit

====
